---- MODULE Spec2Model ----
(***************************************************************************)
(* State-machine model of the unidist MPI backend: the controller API     *)
(* (put / get / wait / submit / shutdown), the message channels between   *)
(* ranks, the worker request store, and the worker and monitor loops.     *)
(***************************************************************************)
EXTENDS Integers, Sequences, FiniteSets, TLC

\* ------------------------------------------------------------------ bounds
NumWorkers == 2
\* get / wait scenarios
GW_MaxIds == 3
GW_MaxSubmits == 2
GW_MaxListLen == 2
\* submit / cleanup scenarios
S_MaxIds == 3
S_MaxSubmits == 2
S_MaxReturns == 2
S_MaxRefs == 2
\* (shutdown scenario)
SD_MaxIds == 2
SD_MaxSubmits == 2
SD_MaxShutdowns == 3
\* (init and termination scenario)
LC_MaxIds == 2
LC_MaxSubmits == 1
LC_MaxShutdowns == 2
LC_MaxSignals == 2
\* (request store scenario)
RS_MaxIds == 2
RS_MaxHandles == 2
RS_MaxListLen == 2
\* (peer exchange scenario)
PE_MaxSubmits == 4
\* get scenario
GL_MaxSubmits == 2
\* handle scenario
HD_MaxIds == 2
HD_MaxObjects == 3
HD_MaxHolders == 2
\* materialize scenario
MT_MaxIds == 2
MT_MaxItems == 1
MT_MaxDepth == 2
\* payload scenario
UW_MaxIds == 1
UW_MaxSubmits == 1
UW_MaxReturns == 1
UW_MaxItems == 1
UW_MaxDepth == 2

\* ------------------------------------------------------------------- ranks
ROOT == 0
MONITOR == 1
world_size == 2 + NumWorkers
Ranks == 0 .. (world_size - 1)
Workers == 2 .. (world_size - 1)

\* ------------------------------------------------------------------ values
\* Plain values and exception instances that can be stored under an id.
Values == {"a", "b"}
Exceptions == {"E", "F"}
\* what the controller program passes to put
PutValues == {"a", "F"}

\* isinstance(value, Exception)
isException(value) == value \in Exceptions

\* --------------------------------------------------------------------- ids
\* A data id encodes (owning rank, counter).
DataID(rank, n) == [rank |-> rank, n |-> n]

\* ------------------------------------------------------------ seq helpers
RECURSIVE RemoveFirst(_, _)
\* list.remove(x): drops the first element equal to x
RemoveFirst(s, x) ==
  IF s = <<>> THEN <<>>
  ELSE IF Head(s) = x THEN Tail(s)
  ELSE <<Head(s)>> \o RemoveFirst(Tail(s), x)

Range(s) == {s[i] : i \in DOMAIN s}

Distinct(s) == \A i, j \in DOMAIN s : i /= j => s[i] /= s[j]

SeqsUpTo(S, n) == UNION {[1 .. k -> S] : k \in 0 .. n}

RECURSIVE SetToSeq(_)
\* the elements of a finite set of ranks in ascending order
SetToSeq(S) ==
  IF S = {} THEN <<>>
  ELSE LET m == CHOOSE x \in S : \A y \in S : x <= y
       IN <<m>> \o SetToSeq(S \ {m})

\* dict / defaultdict helpers: a dict is a function whose domain is its keys
EmptyDict == [x \in {} |-> x]
DictDel(d, k) == [x \in (DOMAIN d) \ {k} |-> d[x]]
DictSet(d, k, v) == [x \in (DOMAIN d) \cup {k} |-> IF x = k THEN v ELSE d[x]]
DictAdd(d, k, r) == DictSet(d, k, (IF k \in DOMAIN d THEN d[k] ELSE {}) \cup {r})

\* ------------------------------------------------------------ python values
\* What the program passes to submit as an argument: a MasterDataID (a data
\* id holding a reference to the garbage collector), a DataID (the base class,
\* without that reference), None, any other object, or a list, tuple or dict
\* of such values. A dict is its keys and its values, in insertion order.
MasterDataID(id) == [t |-> "MasterDataID", id |-> id]
BaseDataID(id) == [t |-> "DataID", id |-> id]
None == [t |-> "None"]
Object == [t |-> "object"]
List(items) == [t |-> "list", items |-> items]
Tuple(items) == [t |-> "tuple", items |-> items]
Dict(keys, items) == [t |-> "dict", keys |-> keys, items |-> items]

\* is_data_id: isinstance(v, DataID)
is_data_id(v) == v.t \in {"MasterDataID", "DataID"}

\* MasterDataID.base_data_id: DataID(self._id)
base_data_id(v) == BaseDataID(v.id)

unwrap_container_types_no_dict == {"list", "tuple"}

\* the types unwrap_data_ids descends into: type(data_ids) in (list, tuple, dict)
unwrap_container_types == {"list", "tuple", "dict"}

RECURSIVE unwrap_data_ids(_)
\* unwrap_data_ids: a container of the same type with every element (for a
\* dict every value, under its own key) unwrapped; a data id becomes its base
\* id; anything else is returned as it is
unwrap_data_ids(data_ids) ==
  IF data_ids.t \in unwrap_container_types
  THEN LET unwrapped == [i \in DOMAIN data_ids.items |-> unwrap_data_ids(data_ids.items[i])]
       IN IF data_ids.t = "list" THEN List(unwrapped)
          ELSE IF data_ids.t = "tuple" THEN Tuple(unwrapped)
          ELSE Dict(data_ids.keys, unwrapped)
  ELSE IF is_data_id(data_ids) THEN base_data_id(data_ids) ELSE data_ids

\* master_data_ids_to_base: None, one data id, or an iterable of data ids
master_data_ids_to_base(o_ids) ==
  IF o_ids.t = "None" THEN None
  ELSE IF is_data_id(o_ids) THEN base_data_id(o_ids)
  ELSE List([i \in DOMAIN o_ids.items |-> base_data_id(o_ids.items[i])])

\* submit: operation_data of the EXECUTE operation
submit_operation_data(task, args, kwargs, output_ids) ==
  [task |-> task,
   args |-> [i \in DOMAIN args |-> unwrap_data_ids(args[i])],
   kwargs |-> [k \in DOMAIN kwargs |-> unwrap_data_ids(kwargs[k])],
   output |-> master_data_ids_to_base(output_ids)]

\* wait: operation_data of the WAIT operation
wait_operation_data(not_ready, pending_returns) ==
  [data_ids |-> [i \in DOMAIN not_ready |-> unwrap_data_ids(not_ready[i])],
   num_returns |-> pending_returns]

RECURSIVE ElementIds(_)
\* the data id objects that are a value itself, or an element or a dict value
\* at any depth of its lists, tuples and dicts
ElementIds(v) ==
  IF is_data_id(v) THEN {v}
  ELSE IF v.t \in {"list", "tuple", "dict"}
  THEN UNION {ElementIds(v.items[i]) : i \in DOMAIN v.items}
  ELSE {}

RECURSIVE ElementIdSeq(_, _)
\* the ids of ElementIds(items[i]), i = from .. Len(items), in traversal order
ElementIdSeq(items, from) ==
  IF from > Len(items) THEN <<>>
  ELSE LET v == items[from]
           here == IF is_data_id(v) THEN <<v.id>>
                   ELSE IF v.t \in {"list", "tuple", "dict"} THEN ElementIdSeq(v.items, 1)
                   ELSE <<>>
       IN here \o ElementIdSeq(items, from + 1)

\* ---------------------------------------------------------------- messages
Msg_CANCEL == [op |-> "CANCEL"]
Msg_CLEANUP(ids) == [op |-> "CLEANUP", ids |-> ids]
Msg_PUT_DATA(id, data, task) == [op |-> "PUT_DATA", id |-> id, data |-> data, task |-> task]
Msg_PUT_OWNER(id, owner, task) == [op |-> "PUT_OWNER", id |-> id, owner |-> owner, task |-> task]
Msg_EXECUTE(task, kind, args, kwargs, output) ==
  [op |-> "EXECUTE", task |-> task, kind |-> kind, args |-> args,
   kwargs |-> kwargs, output |-> output]
Msg_GET(id, source, is_blocking_op) ==
  [op |-> "GET", id |-> id, source |-> source, is_blocking_op |-> is_blocking_op]
Msg_DATA(data) == [op |-> "DATA", data |-> data]
Msg_WAIT(data_ids, num_returns) ==
  [op |-> "WAIT", data_ids |-> data_ids, num_returns |-> num_returns]
Msg_WAIT_REPLY(ready, not_ready) ==
  [op |-> "WAIT_REPLY", ready |-> ready, not_ready |-> not_ready]
Msg_TASK_DONE(task, output) == [op |-> "TASK_DONE", task |-> task, output |-> output]

\* the ids a controller message references
MsgIds(m) ==
  IF m.op = "EXECUTE" THEN Range(m.args) \cup Range(m.kwargs) \cup Range(m.output)
  ELSE IF m.op \in {"PUT_DATA", "PUT_OWNER"} THEN {m.id}
  ELSE {}

Send(ch, src, dst, m) == [ch EXCEPT ![<<src, dst>>] = Append(@, m)]

\* ----------------------------------------------------------- request store
\* A worker's state is a record W:
\*   store                  ObjectStore values, id -> value
\*   serialized             ids whose serialized payload is cached
\*   owners                 location map written by PUT_OWNER, id -> rank
\*   tasks                  EXECUTE operations suspended on missing arguments
\*   data_request           RequestStore._data_request, id -> set of ranks
\*   blocking_data_request  RequestStore._blocking_data_request
\*   wait_request           RequestStore._wait_request, id -> rank
\*   data_request_cache     RequestStore._data_request_cache
\*   async_operations       number of handles held by AsyncOperations
\*   alive                  the worker loop is running
\*   out                    messages produced by the current handler, in order
REQ_DATA == 0
REQ_WAIT == 1
REQ_DATA_CACHE == 2

Out(W, to, m, mode) == [W EXCEPT !.out = Append(@, [to |-> to, msg |-> m, mode |-> mode])]

RequestStore_put_overwrites(W, data_id, rank, request_type, is_blocking_op) ==
  IF request_type = REQ_DATA
  THEN IF is_blocking_op
       THEN [W EXCEPT !.blocking_data_request = DictSet(@, data_id, {rank})]
       ELSE [W EXCEPT !.data_request = DictSet(@, data_id, {rank})]
  ELSE W

\* RequestStore.put
RequestStore_put(W, data_id, rank, request_type, is_blocking_op) ==
  IF request_type = REQ_DATA
  THEN IF is_blocking_op
       THEN [W EXCEPT !.blocking_data_request = DictAdd(@, data_id, rank)]
       ELSE [W EXCEPT !.data_request = DictAdd(@, data_id, rank)]
  ELSE IF request_type = REQ_WAIT
  THEN [W EXCEPT !.wait_request = DictSet(@, data_id, rank)]
  ELSE IF request_type = REQ_DATA_CACHE
  THEN [W EXCEPT !.data_request_cache = @ \cup {data_id}]
  ELSE W

\* RequestStore.is_already_requested
is_already_requested(W, data_id) == data_id \in W.data_request_cache

\* RequestStore.clear_cache
clear_cache(W, data_id) == [W EXCEPT !.data_request_cache = @ \ {data_id}]

process_get_request_sync_for_root_only(W, source_rank, data_id, is_blocking_op) ==
  IF data_id \in DOMAIN W.store
  THEN IF source_rank = ROOT
       THEN Out(W, source_rank, Msg_DATA(W.store[data_id]), "sync")
       ELSE [Out(W, source_rank, Msg_PUT_DATA(data_id, W.store[data_id], -1), "async")
               EXCEPT !.async_operations = @ + 1,
                      !.serialized = @ \cup {data_id}]
  ELSE RequestStore_put(W, data_id, source_rank, REQ_DATA, is_blocking_op)

process_get_request_always_sync(W, source_rank, data_id, is_blocking_op) ==
  IF data_id \in DOMAIN W.store
  THEN IF source_rank = ROOT
       THEN Out(W, source_rank, Msg_DATA(W.store[data_id]), "sync")
       ELSE Out(W, source_rank, Msg_PUT_DATA(data_id, W.store[data_id], -1), "sync")
  ELSE RequestStore_put(W, data_id, source_rank, REQ_DATA, is_blocking_op)

process_get_request_caches_when_absent(W, source_rank, data_id, is_blocking_op) ==
  IF data_id \in DOMAIN W.store /\ (source_rank = ROOT \/ is_blocking_op)
  THEN Out(W, source_rank, Msg_DATA(W.store[data_id]), "sync")
  ELSE IF data_id \in DOMAIN W.store
  THEN [Out(W, source_rank, Msg_PUT_DATA(data_id, W.store[data_id], -1), "async")
          EXCEPT !.async_operations = @ + 1,
                 !.serialized = @ \cup {data_id}]
  ELSE [RequestStore_put(W, data_id, source_rank, REQ_DATA, is_blocking_op)
          EXCEPT !.serialized = IF source_rank = ROOT \/ is_blocking_op
                                THEN @ ELSE @ \cup {data_id}]

process_get_request_absent_not_recorded(W, source_rank, data_id, is_blocking_op) ==
  IF data_id \in DOMAIN W.store
  THEN IF source_rank = ROOT \/ is_blocking_op
       THEN Out(W, source_rank, Msg_DATA(W.store[data_id]), "sync")
       ELSE [Out(W, source_rank, Msg_PUT_DATA(data_id, W.store[data_id], -1), "async")
               EXCEPT !.async_operations = @ + 1,
                      !.serialized = @ \cup {data_id}]
  ELSE W

\* RequestStore.process_get_request
process_get_request(W, source_rank, data_id, is_blocking_op) ==
  IF data_id \in DOMAIN W.store
  THEN IF source_rank = ROOT \/ is_blocking_op
       THEN Out(W, source_rank, Msg_DATA(W.store[data_id]), "sync")
       ELSE IF data_id \in W.serialized
            THEN [Out(W, source_rank, Msg_PUT_DATA(data_id, W.store[data_id], -1), "async")
                    EXCEPT !.async_operations = @ + 1]
            ELSE [Out(W, source_rank, Msg_PUT_DATA(data_id, W.store[data_id], -1), "async")
                    EXCEPT !.async_operations = @ + 1,
                           !.serialized = @ \cup {data_id}]
  ELSE RequestStore_put(W, data_id, source_rank, REQ_DATA, is_blocking_op)

RECURSIVE serve_ranks(_, _, _, _)
\* the loop `for rank_num in ranks_with_get_request: process_get_request(...)`
serve_ranks(W, ranks, data_id, is_blocking_op) ==
  IF ranks = <<>> THEN W
  ELSE serve_ranks(process_get_request(W, Head(ranks), data_id, is_blocking_op),
                   Tail(ranks), data_id, is_blocking_op)

check_request_blocking_bin_forgotten(W, data_id) ==
  IF data_id \in DOMAIN W.data_request
  THEN [serve_ranks(W, SetToSeq(W.data_request[data_id]), data_id, FALSE)
          EXCEPT !.data_request = DictDel(@, data_id)]
  ELSE W

\* RequestStore.check_pending_get_requests.check_request
check_request(W, data_id) ==
  LET W1 == IF data_id \in DOMAIN W.data_request
            THEN [serve_ranks(W, SetToSeq(W.data_request[data_id]), data_id, FALSE)
                    EXCEPT !.data_request = DictDel(@, data_id)]
            ELSE W
  IN IF data_id \in DOMAIN W1.blocking_data_request
     THEN [serve_ranks(W1, SetToSeq(W1.blocking_data_request[data_id]), data_id, TRUE)
             EXCEPT !.blocking_data_request = DictDel(@, data_id)]
     ELSE W1

RECURSIVE check_pending_get_requests(_, _)
\* RequestStore.check_pending_get_requests, data_ids a list
check_pending_get_requests(W, data_ids) ==
  IF data_ids = <<>> THEN W
  ELSE check_pending_get_requests(check_request(W, Head(data_ids)), Tail(data_ids))

check_wait_request_entry_kept(W, data_id) ==
  IF data_id \in DOMAIN W.wait_request
  THEN Out(W, ROOT, [op |-> "READY", id |-> data_id], "sync")
  ELSE W

\* RequestStore.check_pending_wait_requests for one id: when a WAIT is
\* recorded for it, mpi_send_object(comm, data_id, ROOT) and delete the entry
check_wait_request(W, data_id) ==
  IF data_id \in DOMAIN W.wait_request
  THEN [Out(W, ROOT, [op |-> "READY", id |-> data_id], "sync")
          EXCEPT !.wait_request = DictDel(@, data_id)]
  ELSE W

RECURSIVE check_pending_wait_requests(_, _)
\* RequestStore.check_pending_wait_requests, data_ids a list or tuple
check_pending_wait_requests(W, data_ids) ==
  IF data_ids = <<>> THEN W
  ELSE check_pending_wait_requests(check_wait_request(W, Head(data_ids)), Tail(data_ids))

\* RequestStore.check_pending_wait_requests, data_ids a single id
check_pending_wait_requests_id(W, data_ids) == check_wait_request(W, data_ids)

process_wait_request_records_when_present(W, data_id) ==
  RequestStore_put(IF data_id \in DOMAIN W.store
                   THEN Out(W, ROOT, [op |-> "READY", id |-> data_id], "sync") ELSE W,
                   data_id, ROOT, REQ_WAIT, FALSE)

\* RequestStore.process_wait_request
process_wait_request(W, data_id) ==
  IF data_id \in DOMAIN W.store
  THEN Out(W, ROOT, [op |-> "READY", id |-> data_id], "sync")
  ELSE RequestStore_put(W, data_id, ROOT, REQ_WAIT, FALSE)

\* ------------------------------------------------------------------- state
VARIABLES
  object_store,      \* controller object store, id -> value
  data_id_counter,   \* controller object store id counter
  pushed,            \* controller object store: <<id, rank>> whose data was sent to rank
  refs,              \* id -> number of live MasterDataID holders in the user program
  cleanup_list,      \* garbage collector: ids collected and not yet flushed
  task_counter,      \* garbage collector: number of submitted tasks
  rr,                \* RoundRobin: rank the next task goes to
  async_operations,  \* controller AsyncOperations: pending send handles
  is_mpi_shutdown,   \* api.is_mpi_shutdown
  finalize_count,    \* number of MPI.Finalize() calls made
  shutdown_calls,    \* number of shutdown() calls made
  cancel_sent,       \* rank -> number of CANCEL messages the controller sent to it
  shutdown_trace,    \* the steps shutdown has taken, in order
  is_mpi_initialized, \* api.is_mpi_initialized
  topology,          \* api.topology is filled in (non-empty)
  raised,            \* the error the last cluster_resources call or signal delivery raised
  signals,           \* number of SIGINT / SIGTERM deliveries to the controller
  exited,            \* the controller program has ended and its atexit handlers ran
  chan,              \* <<src, dst>> -> messages in flight, in send order
  pc,                \* where the controller is: "idle", "get_recv", "wait_recv", "return"
  frame,             \* locals of the controller call that is blocked
  ret,               \* what the get or wait call that is returning hands to its caller
  putval,            \* id -> value that put() was called with
  submitted,         \* per submit call, in order: what was passed and returned
  obs,               \* worker -> controller operations (other than GET) it has observed, in order
  done_sent,         \* tasks for which a worker sent TASK_DONE, in order
  worker,            \* worker rank -> worker state record
  mon,               \* monitor state record
  rendezvous,        \* worker -> worker ranks its last handler sent data to synchronously
  rs_call,           \* the last direct call of a request-store operation, with the state before it
  wire,              \* the operation_data of the last EXECUTE or WAIT operation, with the call's arguments
  objs,              \* the MasterDataID objects made so far, in order: attributes and holders
  collect_log,       \* the calls of GarbageCollector.collect so far, in order
  obj_call,          \* the last operation on a MasterDataID object
  mat_store,         \* the object store the resolver of materialize_data_ids reads, id -> value
  mat_call           \* the last call of materialize_data_ids: arguments and result

vars == <<object_store, data_id_counter, pushed, refs, cleanup_list, task_counter, rr,
          async_operations, is_mpi_shutdown, finalize_count, shutdown_calls, cancel_sent,
          shutdown_trace, is_mpi_initialized, topology, raised, signals, exited,
          chan, pc, frame, ret, putval, submitted, obs, done_sent, worker, mon,
          rendezvous, rs_call, wire, objs, collect_log, obj_call, mat_store, mat_call>>

ctl_gc_vars == <<object_store, cleanup_list, chan>>
lifecycle_vars == <<is_mpi_initialized, topology, raised, signals, exited>>
ctl_shutdown_vars == <<is_mpi_shutdown, finalize_count, shutdown_calls, cancel_sent,
                       shutdown_trace, lifecycle_vars>>
worker_vars == <<obs, done_sent, worker, mon, rendezvous, rs_call>>
handle_vars == <<objs, collect_log, obj_call>>
mat_vars == <<mat_store, mat_call>>
remote_vars == <<worker_vars, wire, handle_vars, mat_vars>>

NoVal == "none"
NoFrame == [op |-> "none"]
NoRet == [op |-> "none"]

Live == {id \in DOMAIN refs : refs[id] > 0}

\* ------------------------------------------------- controller object store
\* object_store.contains
contains(st, data_id) == data_id \in DOMAIN st

\* object_store.put
object_store_put(st, data_id, data) == DictSet(st, data_id, data)

\* object_store.generate_data_id: owner is the controller's own rank
generate_data_id(counter) == DataID(ROOT, counter)

\* object_store.generate_output_data_id: owner is the destination rank
generate_output_data_id(dest_rank, counter, num_returns) ==
  [i \in 1 .. num_returns |-> DataID(dest_rank, counter + i - 1)]

\* RoundRobin.schedule_rank: cycles through the worker ranks
schedule_rank(next) == next
schedule_next(next) == IF next = world_size - 1 THEN 2 ELSE next + 1

\* --------------------------------------------------------- garbage collector
CleanupThreshold == 1

\* garbage_collector.regular_cleanup: a rank's batch of collected ids is flushed
\* when no task is outstanding (submitted = executed, the monitor's answer to
\* GET_TASK_COUNT) or when the batch exceeds the threshold.
regular_cleanup(st, ch, list) ==
  LET batch(r) == {id \in list : id.rank = r}
      quiescent == task_counter = mon.task_counter
      flush == {r \in {ROOT} \cup Workers :
                  batch(r) /= {} /\ (quiescent \/ Cardinality(batch(r)) > CleanupThreshold)}
      gone == {id \in list : id.rank \in flush}
  IN [object_store |-> [id \in (DOMAIN st) \ gone |-> st[id]],
      chan |-> [p \in DOMAIN ch |->
                  IF p[1] = ROOT /\ p[2] \in flush \ {ROOT}
                  THEN Append(ch[p], Msg_CLEANUP(batch(p[2])))
                  ELSE ch[p]],
      cleanup_list |-> list \ gone]

\* ------------------------------------------------------------ MasterDataID
\* MasterDataID.__del__: the deleted handle enqueues its base id for cleanup
MasterDataID_del(list, data_id) == list \cup {data_id}

\* a holder of a MasterDataID makes another reference to it
Clone(data_id) ==
  /\ pc = "idle"
  /\ data_id \in Live
  /\ refs' = [refs EXCEPT ![data_id] = @ + 1]
  /\ UNCHANGED <<object_store, data_id_counter, pushed, cleanup_list, task_counter, rr,
                 async_operations, chan, pc, frame, ret, putval, submitted>>
  /\ UNCHANGED ctl_shutdown_vars
  /\ UNCHANGED remote_vars

is_last_holder_any_drop(count) == TRUE

\* whether dropping one reference deletes the object (reference count reaches 0)
is_last_holder(count) == count = 1

\* a holder drops its reference; the last drop runs __del__
Drop(data_id) ==
  /\ pc = "idle"
  /\ data_id \in Live
  /\ refs' = [refs EXCEPT ![data_id] = @ - 1]
  /\ cleanup_list' = IF is_last_holder(refs[data_id])
                     THEN MasterDataID_del(cleanup_list, data_id)
                     ELSE cleanup_list
  /\ UNCHANGED <<object_store, data_id_counter, pushed, task_counter, rr,
                 async_operations, chan, pc, frame, ret, putval, submitted>>
  /\ UNCHANGED ctl_shutdown_vars
  /\ UNCHANGED remote_vars

\* ------------------------------------------------- MasterDataID objects
\* A MasterDataID object is its attribute dict (__dict__), the number of
\* references the program holds to it, and the object it was unpickled from
\* (0: made by __init__). objs[o] stays, with holders = 0, after o is deleted.
\* The garbage collector passed to __init__ is "gc", or "None".

\* MasterDataID.__init__: self._gc = garbage_collector if garbage_collector else None
MasterDataID_init(id_value, garbage_collector) ==
  [_id |-> id_value, _gc |-> IF garbage_collector /= "None" THEN garbage_collector ELSE "None"]

\* hasattr(self, name)
hasattr(dict, name) == name \in DOMAIN dict

del_collects_always(dict) == TRUE

\* MasterDataID.__del__: hasattr(self, "_gc") and self._gc is not None
del_collects(dict) == hasattr(dict, "_gc") /\ dict["_gc"] /= "None"

\* MasterDataID.__getstate__: del attributes["_gc"] raises KeyError without the key
getstate_raises(dict) == "_gc" \notin DOMAIN dict

MasterDataID_getstate_keeps_gc(dict) == dict

\* MasterDataID.__getstate__: a copy of __dict__ without "_gc"
MasterDataID_getstate(dict) == [a \in (DOMAIN dict) \ {"_gc"} |-> dict[a]]

\* everything an operation on a MasterDataID object leaves alone
obj_frame ==
  /\ UNCHANGED <<object_store, data_id_counter, pushed, refs, task_counter, rr,
                 async_operations, chan, pc, frame, ret, putval, submitted>>
  /\ UNCHANGED ctl_shutdown_vars
  /\ UNCHANGED <<worker_vars, wire, mat_vars>>

\* MasterDataID(id_value, garbage_collector)
obj_new(id_value, garbage_collector) ==
  /\ pc = "idle"
  /\ objs' = Append(objs, [dict |-> MasterDataID_init(id_value, garbage_collector),
                           holders |-> 1, origin |-> 0])
  /\ obj_call' = [op |-> "new", obj |-> Len(objs) + 1]
  /\ UNCHANGED <<cleanup_list, collect_log>>
  /\ obj_frame

\* the program takes another reference to object o
obj_hold(o) ==
  /\ pc = "idle"
  /\ objs[o].holders >= 1
  /\ objs' = [objs EXCEPT ![o].holders = @ + 1]
  /\ obj_call' = [op |-> "hold", obj |-> o]
  /\ UNCHANGED <<cleanup_list, collect_log>>
  /\ obj_frame

\* the program drops a reference to object o; when it was the last one the
\* object is deleted and __del__ runs: collect(self.base_data_id())
obj_release(o) ==
  /\ pc = "idle"
  /\ objs[o].holders >= 1
  /\ objs' = [objs EXCEPT ![o].holders = @ - 1]
  /\ obj_call' = [op |-> "release", obj |-> o]
  /\ IF is_last_holder(objs[o].holders) /\ del_collects(objs[o].dict)
     THEN /\ cleanup_list' = MasterDataID_del(cleanup_list, objs[o].dict["_id"])
          /\ collect_log' = Append(collect_log, [obj |-> o, id |-> objs[o].dict["_id"]])
     ELSE UNCHANGED <<cleanup_list, collect_log>>
  /\ obj_frame

\* pickle.loads(pickle.dumps(o)): the serialized form is __getstate__(),
\* and the new object's __dict__ is that state
obj_pickle(o) ==
  /\ pc = "idle"
  /\ objs[o].holders >= 1
  /\ IF getstate_raises(objs[o].dict)
     THEN /\ obj_call' = [op |-> "pickle", obj |-> o, outcome |-> "KeyError"]
          /\ UNCHANGED objs
     ELSE LET state == MasterDataID_getstate(objs[o].dict)
          IN /\ objs' = Append(objs, [dict |-> state, holders |-> 1, origin |-> o])
             /\ obj_call' = [op |-> "pickle", obj |-> o, outcome |-> "return",
                             state |-> state, before |-> objs[o]]
  /\ UNCHANGED <<cleanup_list, collect_log>>
  /\ obj_frame

\* ------------------------------------------------- materialize_data_ids
\* unwrap_data_id_impl, the resolver a worker passes: the stored value of an
\* id that is in the object store, the id itself and progress = True for an
\* id that is not; any other value as it is
unwrap_data_id_impl(st, arg) ==
  IF is_data_id(arg)
  THEN IF arg.id \in DOMAIN st
       THEN [value |-> st[arg.id], progress |-> FALSE]
       ELSE [value |-> arg, progress |-> TRUE]
  ELSE [value |-> arg, progress |-> FALSE]

\* materialize_data_ids._unwrap_data_id: the resolver's value; is_pending
\* takes the resolver's progress unless it is already set
materialize_unwrap_data_id(st, arg, is_pending) ==
  LET r == unwrap_data_id_impl(st, arg)
  IN [value |-> r.value, is_pending |-> IF ~is_pending THEN r.progress ELSE is_pending]

RECURSIVE materialize_data_ids(_, _, _)
RECURSIVE materialize_items(_, _, _, _, _)
\* the loop of materialize_data_ids over a container's values from position
\* i: each value is materialized, and the result is passed to _unwrap_data_id
\* before it is added to the new container
materialize_items(st, items, i, container, is_pending) ==
  IF i > Len(items) THEN [value |-> container, is_pending |-> is_pending]
  ELSE LET m == materialize_data_ids(st, items[i], is_pending)
           u == materialize_unwrap_data_id(st, m.value, m.is_pending)
       IN materialize_items(st, items, i + 1, Append(container, u.value), u.is_pending)

\* materialize_data_ids(data_ids, unwrap_data_id_impl, is_pending)
materialize_data_ids(st, data_ids, is_pending) ==
  IF data_ids.t \in {"list", "tuple", "dict"}
  THEN LET r == materialize_items(st, data_ids.items, 1, <<>>, is_pending)
       IN [value |-> IF data_ids.t = "list" THEN List(r.value)
                     ELSE IF data_ids.t = "tuple" THEN Tuple(r.value)
                     ELSE Dict(data_ids.keys, r.value),
           is_pending |-> r.is_pending]
  ELSE materialize_unwrap_data_id(st, data_ids, is_pending)

\* a value lands in the object store the resolver reads
mat_store_put(data_id, value) ==
  /\ mat_store' = DictSet(mat_store, data_id, value)
  /\ UNCHANGED mat_call
  /\ UNCHANGED <<cleanup_list, worker_vars, wire, handle_vars>>
  /\ UNCHANGED <<object_store, data_id_counter, pushed, refs, task_counter, rr,
                 async_operations, chan, pc, frame, ret, putval, submitted>>
  /\ UNCHANGED ctl_shutdown_vars

\* a call materialize_data_ids(data_ids, unwrap_data_id_impl, is_pending)
mat_materialize(data_ids, is_pending) ==
  /\ mat_call' = [op |-> "materialize_data_ids", data_ids |-> data_ids,
                  is_pending |-> is_pending, store |-> mat_store,
                  result |-> materialize_data_ids(mat_store, data_ids, is_pending)]
  /\ UNCHANGED mat_store
  /\ UNCHANGED <<cleanup_list, worker_vars, wire, handle_vars>>
  /\ UNCHANGED <<object_store, data_id_counter, pushed, refs, task_counter, rr,
                 async_operations, chan, pc, frame, ret, putval, submitted>>
  /\ UNCHANGED ctl_shutdown_vars

\* --------------------------------------------------------------------- put
put_store_skipped(st, data_id, data) == st

\* the call `object_store.put(data_id, data)` made by put
put_store(st, data_id, data) == object_store_put(st, data_id, data)

put(data) ==
  /\ pc = "idle"
  /\ LET data_id == generate_data_id(data_id_counter)
     IN /\ object_store' = put_store(object_store, data_id, data)
        /\ data_id_counter' = data_id_counter + 1
        /\ refs' = DictSet(refs, data_id, 1)
        /\ putval' = DictSet(putval, data_id, data)
  /\ UNCHANGED <<pushed, cleanup_list, task_counter, rr, async_operations, chan, pc, frame,
                 ret, submitted>>
  /\ UNCHANGED ctl_shutdown_vars
  /\ UNCHANGED remote_vars

\* --------------------------------------------------------------------- get
get_impl_never_raises(value) == [outcome |-> "return", value |-> value]

\* get.get_impl, after the value was found or fetched: raise or return it
get_impl(value) ==
  IF isException(value)
  THEN [outcome |-> "raise", value |-> value]
  ELSE [outcome |-> "return", value |-> value]

\* the final `return values if is_list else values[0]`
get_return(values, is_list) == IF is_list THEN values ELSE values[1]

RECURSIVE get_values(_, _, _, _, _)
\* values = [get_impl(data_id) for data_id in data_ids], resumed at position i;
\* got is the value just received for position i, or NoVal.
get_values(st, data_ids, i, values, got) ==
  IF i > Len(data_ids) THEN [kind |-> "done", values |-> values]
  ELSE IF got = NoVal /\ ~contains(st, data_ids[i])
  THEN [kind |-> "fetch", i |-> i, values |-> values]
  ELSE LET r == get_impl(IF got = NoVal THEN st[data_ids[i]] ELSE got)
       IN IF r.outcome = "raise"
          THEN [kind |-> "raise", value |-> r.value]
          ELSE get_values(st, data_ids, i + 1, Append(values, r.value), NoVal)

\* get, run from position i until it returns, raises, or blocks in
\* request_worker_data on the reply of an id's owner
get_run(st, ch, data_ids, is_list, i, values, got) ==
  LET r == get_values(st, data_ids, i, values, got)
  IN IF r.kind = "raise"
     THEN /\ object_store' = st
          /\ chan' = ch
          /\ cleanup_list' = cleanup_list
          /\ pc' = "return"
          /\ frame' = NoFrame
          /\ ret' = [op |-> "get", data_ids |-> data_ids, is_list |-> is_list,
                     outcome |-> "raise", value |-> r.value]
     ELSE IF r.kind = "fetch"
     THEN /\ object_store' = st
          /\ chan' = Send(ch, ROOT, data_ids[r.i].rank, Msg_GET(data_ids[r.i], ROOT, TRUE))
          /\ cleanup_list' = cleanup_list
          /\ pc' = "get_recv"
          /\ frame' = [op |-> "get", data_ids |-> data_ids, is_list |-> is_list,
                       i |-> r.i, values |-> r.values]
          /\ ret' = NoRet
     ELSE LET g == regular_cleanup(st, ch, cleanup_list)
          IN /\ object_store' = g.object_store
             /\ chan' = g.chan
             /\ cleanup_list' = g.cleanup_list
             /\ pc' = "return"
             /\ frame' = NoFrame
             /\ ret' = [op |-> "get", data_ids |-> data_ids, is_list |-> is_list,
                        outcome |-> "return", value |-> get_return(r.values, is_list)]

get(data_ids, is_list) ==
  /\ pc = "idle"
  /\ get_run(object_store, chan, data_ids, is_list, 1, <<>>, NoVal)
  /\ UNCHANGED <<data_id_counter, pushed, refs, task_counter, rr, async_operations,
                 putval, submitted>>
  /\ UNCHANGED ctl_shutdown_vars
  /\ UNCHANGED remote_vars

\* request_worker_data: the owner's reply arrives; the value may be kept in the
\* controller's store
get_recv ==
  /\ pc = "get_recv"
  /\ LET data_id == frame.data_ids[frame.i]
         owner == data_id.rank
     IN /\ chan[<<owner, ROOT>>] /= <<>>
        /\ LET m == Head(chan[<<owner, ROOT>>])
               ch == [chan EXCEPT ![<<owner, ROOT>>] = Tail(@)]
           IN \E cache \in BOOLEAN :
                get_run(IF cache THEN object_store_put(object_store, data_id, m.data)
                                 ELSE object_store,
                        ch, frame.data_ids, frame.is_list, frame.i, frame.values, m.data)
  /\ UNCHANGED <<data_id_counter, pushed, refs, task_counter, rr, async_operations,
                 putval, submitted>>
  /\ UNCHANGED ctl_shutdown_vars
  /\ UNCHANGED remote_vars

\* the get or wait call hands its outcome to the caller; no other rank is
\* scheduled between the call's last statement and this step
return_to_caller ==
  /\ pc = "return"
  /\ pc' = "idle"
  /\ ret' = NoRet
  /\ UNCHANGED <<object_store, data_id_counter, pushed, refs, cleanup_list, task_counter,
                 rr, async_operations, chan, frame, putval, submitted>>
  /\ UNCHANGED ctl_shutdown_vars
  /\ UNCHANGED remote_vars

\* -------------------------------------------------------------------- wait
wait_remove_forgotten(not_ready, data_id) == not_ready

wait_enough_too_late(ready, num_returns) == Len(ready) > num_returns

\* `not_ready.remove(data_id)` on the list that is being iterated
wait_remove(not_ready, data_id) == RemoveFirst(not_ready, data_id)

\* `if len(ready) == num_returns: return ready, not_ready`
wait_enough(ready, num_returns) == Len(ready) = num_returns

RECURSIVE wait_loop(_, _, _, _, _, _)
\* the loop `for data_id in not_ready:` of wait, at list position i (the list
\* iterator's index); not_ready is the caller's list itself, which the body
\* shrinks while it is being iterated.
wait_loop(st, not_ready, i, ready, pending_returns, num_returns) ==
  IF i > Len(not_ready)
  THEN [returned |-> FALSE, ready |-> ready, not_ready |-> not_ready,
        pending_returns |-> pending_returns]
  ELSE IF contains(st, not_ready[i])
  THEN LET ready1 == Append(ready, not_ready[i])
           not_ready1 == wait_remove(not_ready, not_ready[i])
       IN IF wait_enough(ready1, num_returns)
          THEN [returned |-> TRUE, ready |-> ready1, not_ready |-> not_ready1,
                pending_returns |-> pending_returns - 1]
          ELSE wait_loop(st, not_ready1, i + 1, ready1, pending_returns - 1, num_returns)
  ELSE wait_loop(st, not_ready, i + 1, ready, pending_returns, num_returns)

\* wait up to the early return or the blocking receive from the monitor
wait_run(data_ids, num_returns, is_list) ==
  /\ pc = "idle"
  /\ LET r == wait_loop(object_store, data_ids, 1, <<>>, num_returns, num_returns)
     IN IF r.returned
        THEN /\ chan' = chan
             /\ pc' = "return"
             /\ frame' = NoFrame
             /\ ret' = [op |-> "wait", data_ids |-> data_ids, num_returns |-> num_returns,
                        is_list |-> is_list, outcome |-> "return",
                        ready |-> r.ready, not_ready |-> r.not_ready,
                        caller_list |-> r.not_ready, via_monitor |-> FALSE]
        ELSE /\ chan' = Send(chan, ROOT, MONITOR, Msg_WAIT(r.not_ready, r.pending_returns))
             /\ pc' = "wait_recv"
             /\ frame' = [op |-> "wait", data_ids |-> data_ids, num_returns |-> num_returns,
                          is_list |-> is_list, ready |-> r.ready,
                          caller_list |-> r.not_ready]
             /\ ret' = NoRet
  /\ UNCHANGED <<object_store, data_id_counter, pushed, refs, cleanup_list, task_counter,
                 rr, async_operations, putval, submitted>>
  /\ UNCHANGED ctl_shutdown_vars
  /\ UNCHANGED <<worker_vars, handle_vars, mat_vars>>

\* wait called with a list of the ids the program holds
wait(data_ids, num_returns, is_list) ==
  /\ wait_run(data_ids, num_returns, is_list)
  /\ UNCHANGED wire

\* the same call, with the WAIT operation's operation_data kept: data_ids is
\* the list of MasterDataID objects the ids stand for
wait_objects(data_ids, num_returns) ==
  /\ wait_run(data_ids, num_returns, TRUE)
  /\ LET r == wait_loop(object_store, data_ids, 1, <<>>, num_returns, num_returns)
         not_ready == [i \in DOMAIN r.not_ready |-> MasterDataID(r.not_ready[i])]
     IN wire' = IF r.returned THEN wire
                ELSE [op |-> "WAIT", args |-> not_ready, kwargs |-> EmptyDict,
                      data |-> wait_operation_data(not_ready, r.pending_returns)]

\* wait after the monitor's reply: merge, clean up, return
wait_recv ==
  /\ pc = "wait_recv"
  /\ chan[<<MONITOR, ROOT>>] /= <<>>
  /\ LET data == Head(chan[<<MONITOR, ROOT>>])
         ch == [chan EXCEPT ![<<MONITOR, ROOT>>] = Tail(@)]
         g == regular_cleanup(object_store, ch, cleanup_list)
     IN /\ object_store' = g.object_store
        /\ chan' = g.chan
        /\ cleanup_list' = g.cleanup_list
        /\ ret' = [op |-> "wait", data_ids |-> frame.data_ids,
                   num_returns |-> frame.num_returns, is_list |-> frame.is_list,
                   outcome |-> "return",
                   ready |-> frame.ready \o data.ready, not_ready |-> data.not_ready,
                   caller_list |-> frame.caller_list, via_monitor |-> TRUE]
  /\ pc' = "return"
  /\ frame' = NoFrame
  /\ UNCHANGED <<data_id_counter, pushed, refs, task_counter, rr, async_operations,
                 putval, submitted>>
  /\ UNCHANGED ctl_shutdown_vars
  /\ UNCHANGED remote_vars

\* ------------------------------------------------------------------ submit
KwNames == {"k"}
KwValues(kwargs) == IF "k" \in DOMAIN kwargs THEN <<kwargs["k"]>> ELSE <<>>

RECURSIVE push_data(_, _, _, _, _)
\* controller push_data(dest_rank, value): for each argument id that is not
\* known to reside on dest_rank, PUT_DATA when the controller holds the value,
\* PUT_OWNER otherwise
push_data(st, sent, dest_rank, ids, task) ==
  IF ids = <<>> THEN [msgs |-> <<>>, pushed |-> sent]
  ELSE LET id == Head(ids)
           here == id.rank = dest_rank \/ <<id, dest_rank>> \in sent
           m == IF here THEN <<>>
                ELSE IF contains(st, id) THEN <<Msg_PUT_DATA(id, st[id], task)>>
                ELSE <<Msg_PUT_OWNER(id, id.rank, task)>>
           sent1 == IF ~here /\ contains(st, id) THEN sent \cup {<<id, dest_rank>>} ELSE sent
           rest == push_data(st, sent1, dest_rank, Tail(ids), task)
       IN [msgs |-> m \o rest.msgs, pushed |-> rest.pushed]

submit_sends_execute_first(pushes, execute) == <<execute>> \o pushes

\* the order in which submit hands its messages to the transport:
\* push_data(args), push_data(kwargs), then the EXECUTE operation
submit_sends(pushes, execute) == pushes \o <<execute>>

submit_execute_rank_next(dest_rank) == schedule_next(dest_rank)

\* the rank submit sends the EXECUTE operation to
submit_execute_rank(dest_rank) == dest_rank

submit_task_counter_skips_no_output(counter, num_returns) ==
  IF num_returns = 0 THEN counter ELSE counter + 1

\* garbage_collector.increment_task_counter, called once by every submit
submit_task_counter(counter, num_returns) == counter + 1

RECURSIVE SendAll(_, _, _, _)
SendAll(ch, src, dst, msgs) ==
  IF msgs = <<>> THEN ch
  ELSE SendAll(Send(ch, src, dst, Head(msgs)), src, dst, Tail(msgs))

submit_run(kind, args, kwargs, num_returns) ==
  /\ pc = "idle"
  /\ LET g == regular_cleanup(object_store, chan, cleanup_list)
         dest_rank == schedule_rank(rr)
         output_ids == generate_output_data_id(dest_rank, data_id_counter, num_returns)
         task == Len(submitted) + 1
         p1 == push_data(g.object_store, pushed, dest_rank, args, task)
         p2 == push_data(g.object_store, p1.pushed, dest_rank, KwValues(kwargs), task)
         execute == Msg_EXECUTE(task, kind, args, kwargs, output_ids)
     IN /\ object_store' = g.object_store
        /\ cleanup_list' = g.cleanup_list
        /\ rr' = schedule_next(rr)
        /\ data_id_counter' = data_id_counter + num_returns
        /\ pushed' = p2.pushed
        /\ chan' = SendAll(g.chan, ROOT, submit_execute_rank(dest_rank),
                           submit_sends(p1.msgs \o p2.msgs, execute))
        /\ async_operations' = Append(async_operations, task)
        /\ task_counter' = submit_task_counter(task_counter, num_returns)
        /\ refs' = [id \in (DOMAIN refs) \cup Range(output_ids) |->
                      IF id \in Range(output_ids) THEN 1 ELSE refs[id]]
        /\ submitted' = Append(submitted, [dest_rank |-> dest_rank, output |-> output_ids,
                                           num_returns |-> num_returns, kind |-> kind,
                                           args |-> Range(args) \cup Range(kwargs)])
  /\ UNCHANGED <<pc, frame, ret, putval>>
  /\ UNCHANGED ctl_shutdown_vars
  /\ UNCHANGED <<worker_vars, handle_vars, mat_vars>>

\* submit called with the ids the program holds as arguments: args a list of
\* ids, kwargs a dict of ids
submit(kind, args, kwargs, num_returns) ==
  /\ submit_run(kind, args, kwargs, num_returns)
  /\ UNCHANGED wire

\* the same call with python values as arguments, and the EXECUTE operation's
\* operation_data kept; the ids it pushes to the destination are the ids its
\* unwrapped arguments contain, those of args before those of kwargs
submit_objects(kind, args, kwargs, num_returns) ==
  LET dest_rank == schedule_rank(rr)
      output_ids == generate_output_data_id(dest_rank, data_id_counter, num_returns)
      data == submit_operation_data(
                Len(submitted) + 1, args, kwargs,
                List([i \in DOMAIN output_ids |-> MasterDataID(output_ids[i])]))
  IN /\ submit_run(kind,
                   ElementIdSeq(data.args, 1) \o ElementIdSeq(KwValues(data.kwargs), 1),
                   EmptyDict, num_returns)
     /\ wire' = [op |-> "EXECUTE", args |-> args, kwargs |-> kwargs, data |-> data]

\* ---------------------------------------------------------------- shutdown
\* the ranks shutdown sends CANCEL to: range(MPIRank.MONITOR, world_size)
shutdown_ranks == MONITOR .. (world_size - 1)

shutdown_needed_always(flag) == TRUE

\* the guard `if not is_mpi_shutdown`
shutdown_needed(flag) == ~flag

shutdown_steps_finalize_before_finish(handles) ==
  [r \in 1 .. (world_size - MONITOR) |->
     [step |-> "CANCEL", rank |-> MONITOR + r - 1, handles |-> handles]]
  \o <<[step |-> "finalize", rank |-> ROOT, handles |-> handles]>>
  \o <<[step |-> "finish", rank |-> ROOT, handles |-> handles]>>

\* the steps of the body of shutdown, in program order: the CANCEL loop,
\* async_operations.finish(), MPI.Finalize(); handles is the number of
\* handles the tracker holds when a step starts
shutdown_steps(handles) ==
  [r \in 1 .. (world_size - MONITOR) |->
     [step |-> "CANCEL", rank |-> MONITOR + r - 1, handles |-> handles]]
  \o <<[step |-> "finish", rank |-> ROOT, handles |-> handles]>>
  \o <<[step |-> "finalize", rank |-> ROOT, handles |-> 0]>>

\* the handles the tracker holds after async_operations.finish()
finish(handles) == <<>>

\* the body of shutdown(), whoever calls it
shutdown_run ==
  /\ shutdown_calls' = shutdown_calls + 1
  /\ IF shutdown_needed(is_mpi_shutdown)
     THEN /\ chan' = [p \in DOMAIN chan |->
                        IF p[1] = ROOT /\ p[2] \in shutdown_ranks
                        THEN Append(chan[p], Msg_CANCEL)
                        ELSE chan[p]]
          /\ cancel_sent' = [r \in Ranks |->
                               IF r \in shutdown_ranks THEN cancel_sent[r] + 1
                               ELSE cancel_sent[r]]
          /\ shutdown_trace' = shutdown_trace \o shutdown_steps(Len(async_operations))
          /\ async_operations' = finish(async_operations)
          /\ finalize_count' = IF finalize_count = 0 THEN 1 ELSE finalize_count
          /\ is_mpi_shutdown' = TRUE
     ELSE UNCHANGED <<chan, cancel_sent, shutdown_trace, async_operations, finalize_count,
                      is_mpi_shutdown>>
  /\ UNCHANGED <<object_store, data_id_counter, pushed, refs, cleanup_list, task_counter,
                 rr, pc, frame, ret, putval, submitted>>
  /\ UNCHANGED remote_vars

shutdown ==
  /\ pc = "idle"
  /\ shutdown_run
  /\ UNCHANGED lifecycle_vars

\* ------------------------------------------------------ init, termination
\* init on rank 0: the topology is collected, the flag is set, and
\* _termination_handler is registered with atexit and for SIGTERM / SIGINT
init ==
  /\ pc = "idle"
  /\ topology' = TRUE
  /\ is_mpi_initialized' = TRUE
  /\ UNCHANGED <<raised, signals, exited>>
  /\ UNCHANGED <<is_mpi_shutdown, finalize_count, shutdown_calls, cancel_sent, shutdown_trace>>
  /\ UNCHANGED <<object_store, data_id_counter, pushed, refs, cleanup_list, task_counter,
                 rr, async_operations, chan, pc, frame, ret, putval, submitted>>
  /\ UNCHANGED remote_vars

\* cluster_resources: raises RuntimeError while the topology is empty
cluster_resources ==
  /\ pc = "idle"
  /\ raised' = IF ~topology THEN "RuntimeError" ELSE "none"
  /\ UNCHANGED <<is_mpi_initialized, topology, signals, exited>>
  /\ UNCHANGED <<is_mpi_shutdown, finalize_count, shutdown_calls, cancel_sent, shutdown_trace>>
  /\ UNCHANGED <<object_store, data_id_counter, pushed, refs, cleanup_list, task_counter,
                 rr, async_operations, chan, pc, frame, ret, putval, submitted>>
  /\ UNCHANGED remote_vars

\* number of parameters of `def _termination_handler()`
termination_handler_params == 0
\* a handler set with signal.signal is called with (signum, frame)
signal_handler_args == 2
\* a function registered with atexit.register(func) is called without arguments
atexit_handler_args == 0

\* calling a function of `params` positional parameters with `nargs` arguments
call_accepts(params, nargs) == params = nargs

\* SIGINT or SIGTERM is delivered to the controller after init: the
\* interpreter calls the registered handler with two arguments
on_signal ==
  /\ pc = "idle"
  /\ is_mpi_initialized
  /\ signals' = signals + 1
  /\ IF call_accepts(termination_handler_params, signal_handler_args)
     THEN /\ shutdown_run
          /\ raised' = "none"
     ELSE /\ raised' = "TypeError"
          /\ UNCHANGED <<is_mpi_shutdown, finalize_count, shutdown_calls, cancel_sent,
                         shutdown_trace>>
          /\ UNCHANGED <<object_store, data_id_counter, pushed, refs, cleanup_list,
                         task_counter, rr, async_operations, chan, pc, frame, ret, putval,
                         submitted>>
          /\ UNCHANGED remote_vars
  /\ UNCHANGED <<is_mpi_initialized, topology, exited>>

\* the controller program ends: the interpreter runs the atexit handler
at_exit ==
  /\ pc = "idle"
  /\ is_mpi_initialized
  /\ ~exited
  /\ exited' = TRUE
  /\ IF call_accepts(termination_handler_params, atexit_handler_args)
     THEN shutdown_run
     ELSE /\ UNCHANGED <<is_mpi_shutdown, finalize_count, shutdown_calls, cancel_sent,
                         shutdown_trace>>
          /\ UNCHANGED <<object_store, data_id_counter, pushed, refs, cleanup_list,
                         task_counter, rr, async_operations, chan, pc, frame, ret, putval,
                         submitted>>
          /\ UNCHANGED remote_vars
  /\ UNCHANGED <<is_mpi_initialized, topology, raised, signals>>

\* ------------------------------------------------------------- worker loop
InitWorker ==
  [store |-> EmptyDict, serialized |-> {}, owners |-> EmptyDict, tasks |-> {},
   data_request |-> EmptyDict, blocking_data_request |-> EmptyDict,
   wait_request |-> EmptyDict, data_request_cache |-> {}, async_operations |-> 0,
   alive |-> TRUE, out |-> <<>>]

TaskArgs(t) == Range(t.args) \cup Range(t.kwargs)

\* a task can run once every argument id has a value in the local store
task_ready(W, t) == TaskArgs(t) \subseteq DOMAIN W.store

\* the value a task produces: an exception instance when the callable raises
task_result(t) == IF t.kind = "fail" THEN "E" ELSE "a"

\* run the task, store the result under each output id, send one TASK_DONE to
\* the monitor, then serve the requests that were waiting for the outputs
execute_task(W, t) ==
  LET W1 == [W EXCEPT !.store = [id \in (DOMAIN W.store) \cup Range(t.output) |->
                                   IF id \in Range(t.output) THEN task_result(t)
                                   ELSE W.store[id]],
                      !.tasks = @ \ {t}]
      W2 == Out(W1, MONITOR, Msg_TASK_DONE(t.task, t.output), "sync")
      W3 == check_pending_get_requests(W2, t.output)
  IN check_pending_wait_requests(W3, t.output)

RECURSIVE request_args(_, _, _)
\* for each absent argument id owned by another worker, send a GET to the
\* owner unless one is already in flight
request_args(W, self, ids) ==
  IF ids = <<>> THEN W
  ELSE LET id == Head(ids)
           ask == /\ id \notin DOMAIN W.store
                  /\ id.rank \in Workers \ {self}
                  /\ ~is_already_requested(W, id)
           W1 == IF ask
                 THEN RequestStore_put(Out(W, id.rank, Msg_GET(id, self, FALSE), "sync"),
                                       id, self, REQ_DATA_CACHE, FALSE)
                 ELSE W
       IN request_args(W1, self, Tail(ids))

\* EXECUTE: run the task at once when its arguments are local, else suspend it
on_EXECUTE(W, self, m) ==
  IF task_ready(W, m) THEN execute_task(W, m)
  ELSE request_args([W EXCEPT !.tasks = @ \cup {m}], self, m.args \o KwValues(m.kwargs))

\* PUT_DATA: store the value, clear the requested cache, serve pending requests
on_PUT_DATA(W, m) ==
  LET W1 == clear_cache([W EXCEPT !.store = DictSet(@, m.id, m.data)], m.id)
  IN check_pending_wait_requests(check_pending_get_requests(W1, <<m.id>>), <<m.id>>)

\* PUT_OWNER: record the owner of the id
on_PUT_OWNER(W, m) == [W EXCEPT !.owners = DictSet(@, m.id, m.owner)]

\* CLEANUP: remove the ids from the object store and the serialized cache
on_CLEANUP(W, m) ==
  [W EXCEPT !.store = [id \in (DOMAIN W.store) \ m.ids |-> W.store[id]],
            !.serialized = @ \ m.ids]

RECURSIVE Deliver(_, _, _)
\* hand the messages a handler produced to the transport, in order
Deliver(ch, src, out) ==
  IF out = <<>> THEN ch
  ELSE Deliver(Send(ch, src, Head(out).to, Head(out).msg), src, Tail(out))

TaskDones(out) ==
  LET d == SelectSeq(out, LAMBDA o : o.msg.op = "TASK_DONE")
  IN [i \in 1 .. Len(d) |-> d[i].msg.task]

\* the worker ranks to which the handler sent object data with a blocking
\* send: such a send may return only when the receiver has taken the message
SyncDataPeers(out) ==
  {out[i].to : i \in {j \in DOMAIN out : /\ out[j].mode = "sync"
                                          /\ out[j].to \in Workers
                                          /\ out[j].msg.op \in {"DATA", "PUT_DATA"}}}

\* worker w is inside a blocking data send that its peer has not yet taken
Blocked(w) == \E d \in rendezvous[w] : chan[<<w, d>>] /= <<>>

\* one dispatch of the worker loop: the handler turned W into W2 after
\* taking the head message of the channel from src (src = 0 - 1: no message)
worker_step(self, src, W2) ==
  /\ worker' = [worker EXCEPT ![self] = [W2 EXCEPT !.out = <<>>]]
  /\ chan' = Deliver(IF src \in Ranks
                     THEN [chan EXCEPT ![<<src, self>>] = Tail(@)] ELSE chan,
                     self, W2.out)
  /\ obs' = IF src = ROOT /\ Head(chan[<<ROOT, self>>]).op /= "GET"
            THEN [obs EXCEPT ![self] = Append(@, Head(chan[<<ROOT, self>>]))]
            ELSE obs
  /\ done_sent' = done_sent \o TaskDones(W2.out)
  /\ rendezvous' = [rendezvous EXCEPT ![self] = SyncDataPeers(W2.out)]
  /\ UNCHANGED <<object_store, data_id_counter, pushed, refs, cleanup_list, task_counter,
                 rr, async_operations, pc, frame, ret, putval, submitted, mon, rs_call, wire,
                 handle_vars, mat_vars>>
  /\ UNCHANGED ctl_shutdown_vars

Receives(self, src, op) ==
  /\ pc /= "return"
  /\ worker[self].alive
  /\ chan[<<src, self>>] /= <<>>
  /\ Head(chan[<<src, self>>]).op = op

worker_EXECUTE(self) ==
  /\ Receives(self, ROOT, "EXECUTE")
  /\ worker_step(self, ROOT, on_EXECUTE(worker[self], self, Head(chan[<<ROOT, self>>])))

worker_GET(self, src) ==
  /\ Receives(self, src, "GET")
  /\ LET m == Head(chan[<<src, self>>])
     IN worker_step(self, src,
                    process_get_request(worker[self], m.source, m.id, m.is_blocking_op))

worker_PUT_DATA(self, src) ==
  /\ Receives(self, src, "PUT_DATA")
  /\ worker_step(self, src, on_PUT_DATA(worker[self], Head(chan[<<src, self>>])))

worker_PUT_OWNER(self) ==
  /\ Receives(self, ROOT, "PUT_OWNER")
  /\ worker_step(self, ROOT, on_PUT_OWNER(worker[self], Head(chan[<<ROOT, self>>])))

worker_CLEANUP(self) ==
  /\ Receives(self, ROOT, "CLEANUP")
  /\ worker_step(self, ROOT, on_CLEANUP(worker[self], Head(chan[<<ROOT, self>>])))

worker_CANCEL(self) ==
  /\ Receives(self, ROOT, "CANCEL")
  /\ worker_step(self, ROOT, [worker[self] EXCEPT !.alive = FALSE])

\* a suspended task whose arguments have all arrived runs on a later turn
worker_run(self) ==
  /\ pc /= "return"
  /\ worker[self].alive
  /\ \E t \in worker[self].tasks :
       /\ task_ready(worker[self], t)
       /\ worker_step(self, 0 - 1, execute_task(worker[self], t))

\* ------------------------------------------------------------ monitor loop
NoWait == [data_ids |-> <<>>, num_returns |-> 0]

InitMonitor == [task_counter |-> 0, completed |-> {}, wait |-> NoWait, alive |-> TRUE]

Pick(s, I) == LET f == SetToSeq(I) IN [k \in 1 .. Len(f) |-> s[f[k]]]

\* answer the pending WAIT once num_returns of its ids are completed
monitor_process_wait(M, ch) ==
  LET ids == M.wait.data_ids
      n == M.wait.num_returns
      done == {i \in DOMAIN ids : ids[i] \in M.completed}
      first == Range(SubSeq(SetToSeq(done), 1, n))
  IN IF n > 0 /\ Cardinality(done) >= n
     THEN [mon |-> [M EXCEPT !.wait = NoWait],
           chan |-> Send(ch, MONITOR, ROOT,
                         Msg_WAIT_REPLY(Pick(ids, first), Pick(ids, (DOMAIN ids) \ first)))]
     ELSE [mon |-> M, chan |-> ch]

monitor_step(src, M) ==
  LET r == monitor_process_wait(M, [chan EXCEPT ![<<src, MONITOR>>] = Tail(@)])
  IN /\ mon' = r.mon
     /\ chan' = r.chan
     /\ UNCHANGED <<object_store, data_id_counter, pushed, refs, cleanup_list, task_counter,
                    rr, async_operations, pc, frame, ret, putval, submitted, obs, done_sent,
                    worker, rendezvous, rs_call, wire, handle_vars, mat_vars>>
     /\ UNCHANGED ctl_shutdown_vars

MonitorReceives(src, op) ==
  /\ pc /= "return"
  /\ mon.alive
  /\ chan[<<src, MONITOR>>] /= <<>>
  /\ Head(chan[<<src, MONITOR>>]).op = op

\* TASK_DONE: count the executed task and note its outputs as completed
monitor_TASK_DONE(src) ==
  /\ MonitorReceives(src, "TASK_DONE")
  /\ LET m == Head(chan[<<src, MONITOR>>])
     IN monitor_step(src, [mon EXCEPT !.task_counter = @ + 1,
                                      !.completed = @ \cup Range(m.output)])

\* WAIT: keep the request until enough of its ids are completed
monitor_WAIT ==
  /\ MonitorReceives(ROOT, "WAIT")
  /\ LET m == Head(chan[<<ROOT, MONITOR>>])
     IN monitor_step(ROOT, [mon EXCEPT !.wait = [data_ids |-> m.data_ids,
                                                 num_returns |-> m.num_returns]])

\* CANCEL: leave the loop
monitor_CANCEL ==
  /\ MonitorReceives(ROOT, "CANCEL")
  /\ monitor_step(ROOT, [mon EXCEPT !.alive = FALSE])

\* ----------------------------------------------------------- specification
NoCall == [op |-> "none"]

InitCommon ==
  /\ object_store = EmptyDict
  /\ data_id_counter = 0
  /\ pushed = {}
  /\ refs = EmptyDict
  /\ cleanup_list = {}
  /\ task_counter = 0
  /\ rr = 2
  /\ async_operations = <<>>
  /\ is_mpi_shutdown = FALSE
  /\ finalize_count = 0
  /\ shutdown_calls = 0
  /\ cancel_sent = [r \in Ranks |-> 0]
  /\ shutdown_trace = <<>>
  /\ raised = "none"
  /\ signals = 0
  /\ exited = FALSE
  /\ chan = [p \in Ranks \X Ranks |-> <<>>]
  /\ pc = "idle"
  /\ frame = NoFrame
  /\ ret = NoRet
  /\ putval = EmptyDict
  /\ submitted = <<>>
  /\ obs = [w \in Workers |-> <<>>]
  /\ done_sent = <<>>
  /\ worker = [w \in Workers |-> InitWorker]
  /\ mon = InitMonitor
  /\ rendezvous = [w \in Workers |-> {}]
  /\ rs_call = NoCall
  /\ wire = NoCall
  /\ objs = <<>>
  /\ collect_log = <<>>
  /\ obj_call = NoCall
  /\ mat_store = EmptyDict
  /\ mat_call = NoCall

\* the state in which the program runs its tasks: init has been called
Init ==
  /\ InitCommon
  /\ is_mpi_initialized = TRUE
  /\ topology = TRUE

\* the state at import of the controller module
InitLC ==
  /\ InitCommon
  /\ is_mpi_initialized = FALSE
  /\ topology = FALSE

NoArgs == <<>>
NoKwargs == EmptyDict

\* The controller program puts values, submits tasks without arguments, and
\* calls get and wait on the ids it holds.
NextGW ==
  \/ /\ data_id_counter < GW_MaxIds
     /\ \E data \in PutValues : put(data)
  \/ \E data_ids \in SeqsUpTo(Live, GW_MaxListLen) : get(data_ids, TRUE)
  \/ \E data_id \in Live : get(<<data_id>>, FALSE)
  \/ get_recv
  \/ \E data_ids \in SeqsUpTo(Live, GW_MaxListLen), n \in 1 .. (GW_MaxListLen + 1) :
       wait(data_ids, n, TRUE)
  \/ \E data_id \in Live, n \in 1 .. 2 : wait(<<data_id>>, n, FALSE)
  \/ wait_recv
  \/ return_to_caller
  \/ /\ Len(submitted) < GW_MaxSubmits
     /\ data_id_counter < GW_MaxIds
     /\ \E kind \in {"ok", "fail"} : submit(kind, NoArgs, NoKwargs, 1)
  \/ \E data_id \in Live : Drop(data_id)
  \/ \E w \in Workers : worker_EXECUTE(w)
  \/ \E w \in Workers : worker_GET(w, ROOT)
  \/ \E w \in Workers : worker_CLEANUP(w)
  \/ \E w \in Workers : monitor_TASK_DONE(w)
  \/ monitor_WAIT

SpecGW == Init /\ [][NextGW]_vars

\* The controller program puts values, submits tasks whose positional and
\* keyword arguments are ids it holds, and copies and drops its id handles.
NextS ==
  \/ /\ data_id_counter < S_MaxIds
     /\ put("a")
  \/ \E n \in 0 .. S_MaxReturns :
       /\ Len(submitted) < S_MaxSubmits
       /\ data_id_counter + n <= S_MaxIds
       /\ \E args \in SeqsUpTo(Live, 1),
             kwargs \in UNION {[K -> Live] : K \in SUBSET KwNames} :
            submit("ok", args, kwargs, n)
  \/ \E data_id \in Live : refs[data_id] < S_MaxRefs /\ Clone(data_id)
  \/ \E data_id \in Live : Drop(data_id)
  \/ \E w \in Workers : worker_EXECUTE(w)
  \/ \E w \in Workers, src \in Ranks : worker_GET(w, src)
  \/ \E w \in Workers, src \in Ranks : worker_PUT_DATA(w, src)
  \/ \E w \in Workers : worker_PUT_OWNER(w)
  \/ \E w \in Workers : worker_CLEANUP(w)
  \/ \E w \in Workers : worker_run(w)
  \/ \E w \in Workers : monitor_TASK_DONE(w)

SpecS == Init /\ [][NextS]_vars

\* shutdown scenario: tasks without arguments are submitted while the
\* transport is up, and shutdown is called any number of times
NextSD ==
  \/ /\ data_id_counter < SD_MaxIds
     /\ put("a")
  \/ /\ ~is_mpi_shutdown
     /\ Len(submitted) < SD_MaxSubmits
     /\ data_id_counter < SD_MaxIds
     /\ submit("ok", NoArgs, NoKwargs, 1)
  \/ /\ shutdown_calls < SD_MaxShutdowns
     /\ shutdown
  \/ \E w \in Workers : worker_EXECUTE(w)
  \/ \E w \in Workers : worker_CANCEL(w)
  \/ \E w \in Workers : monitor_TASK_DONE(w)
  \/ monitor_CANCEL

SpecSD == Init /\ [][NextSD]_vars

\* init and termination scenario: the program starts before init, may call
\* put and cluster_resources at any time, calls init once, submits tasks
\* and calls shutdown while initialized, receives signals, and ends
NextLC ==
  \/ /\ ~exited /\ ~is_mpi_initialized
     /\ init
  \/ /\ ~exited /\ data_id_counter < LC_MaxIds
     /\ put("a")
  \/ /\ ~exited
     /\ cluster_resources
  \/ /\ ~exited /\ is_mpi_initialized /\ ~is_mpi_shutdown
     /\ Len(submitted) < LC_MaxSubmits
     /\ data_id_counter < LC_MaxIds
     /\ submit("ok", NoArgs, NoKwargs, 1)
  \/ /\ ~exited /\ is_mpi_initialized
     /\ shutdown_calls < LC_MaxShutdowns
     /\ shutdown
  \/ /\ ~exited /\ signals < LC_MaxSignals
     /\ on_signal
  \/ at_exit
  \/ \E w \in Workers : worker_EXECUTE(w)
  \/ \E w \in Workers : worker_CANCEL(w)
  \/ \E w \in Workers : monitor_TASK_DONE(w)
  \/ monitor_CANCEL

SpecLC == InitLC /\ [][NextLC]_vars

\* ------------------------------------------------- peer exchange scenario
\* The program submits tasks whose argument is the output of an earlier task,
\* so that workers ask each other for values.  A worker inside a blocking
\* data send to a peer takes no step until the peer has taken the message.
PeerWorker(w) ==
  /\ ~Blocked(w)
  /\ \/ worker_EXECUTE(w)
     \/ \E src \in Ranks : worker_GET(w, src)
     \/ \E src \in Ranks : worker_PUT_DATA(w, src)
     \/ worker_PUT_OWNER(w)
     \/ worker_run(w)

NextPE ==
  \/ /\ Len(submitted) < PE_MaxSubmits
     /\ \E args \in SeqsUpTo(Live, 1) : submit("ok", args, NoKwargs, 1)
  \/ \E w \in Workers : PeerWorker(w)
  \/ \E w \in Workers : monitor_TASK_DONE(w)

\* every worker loop keeps polling, and so does the monitor
SpecPE ==
  /\ Init /\ [][NextPE]_vars
  /\ \A w \in Workers : WF_vars(PeerWorker(w))
  /\ WF_vars(\E w \in Workers : monitor_TASK_DONE(w))

\* ------------------------------------------------- request store scenario
\* The controller program submits tasks whose argument is an id it holds and
\* gets the ids it holds, while the worker loops, the monitor loop and a
\* blocked get keep running.
NextGL ==
  \/ /\ Len(submitted) < GL_MaxSubmits
     /\ \E args \in SeqsUpTo(Live, 1) : submit("ok", args, NoKwargs, 1)
  \/ \E data_id \in Live : get(<<data_id>>, FALSE)
  \/ get_recv
  \/ return_to_caller
  \/ \E w \in Workers : PeerWorker(w)
  \/ \E w \in Workers : monitor_TASK_DONE(w)

SpecGL ==
  /\ Init /\ [][NextGL]_vars
  /\ \A w \in Workers : WF_vars(PeerWorker(w))
  /\ WF_vars(get_recv)
  /\ WF_vars(return_to_caller)
  /\ WF_vars(\E w \in Workers : monitor_TASK_DONE(w))

\* The controller program puts values, submits tasks whose positional and
\* keyword arguments are ids it holds or lists, tuples and dicts containing
\* them, and waits for ids it holds.
RECURSIVE UW_Values(_, _)
\* the values of nesting depth up to d over the handles of ids; a dict key is
\* a handle or another hashable object
UW_Values(ids, d) ==
  IF d = 0 THEN {MasterDataID(id) : id \in ids} \cup {Object}
  ELSE LET V == UW_Values(ids, d - 1)
           S == SeqsUpTo(V, UW_MaxItems)
           K == {MasterDataID(id) : id \in ids} \cup {Object}
       IN V \cup {List(items) : items \in S} \cup {Tuple(items) : items \in S}
            \cup UNION {{Dict(keys, items) : keys \in {k \in [DOMAIN items -> K] : Distinct(k)}}
                         : items \in S}

NextUW ==
  \/ /\ data_id_counter < UW_MaxIds
     /\ put("a")
  \/ \E n \in 0 .. UW_MaxReturns :
       /\ Len(submitted) < UW_MaxSubmits
       /\ \E args \in SeqsUpTo(UW_Values(Live, UW_MaxDepth), 1),
             kwargs \in UNION {[K -> UW_Values(Live, UW_MaxDepth)] : K \in SUBSET KwNames} :
            submit_objects("ok", args, kwargs, n)
  \/ \E data_ids \in SeqsUpTo(Live, 2), n \in 1 .. 2 : wait_objects(data_ids, n)
  \/ wait_recv
  \/ return_to_caller
  \/ \E w \in Workers : worker_EXECUTE(w)
  \/ \E w \in Workers : worker_PUT_DATA(w, ROOT)
  \/ \E w \in Workers : monitor_TASK_DONE(w)
  \/ monitor_WAIT

SpecUW == Init /\ [][NextUW]_vars

\* The request store of one worker, called directly as its worker loop
\* calls it: with any requester rank, any of the worker's ids, either
\* blocking flag, while values land in and are cleaned from its object store.
RS_Self == 2
RS_Ids == {DataID(RS_Self, n) : n \in 0 .. (RS_MaxIds - 1)}
RS_Requesters == Ranks \ {MONITOR, RS_Self}

\* the worker state a call starts from: nothing sent yet
RS_Before == [worker[RS_Self] EXCEPT !.out = <<>>]

\* a call turned the worker state into W2; its sends stay in W2.out
rs_step(call, W2) ==
  /\ worker' = [worker EXCEPT ![RS_Self] = W2]
  /\ rs_call' = call @@ [before |-> RS_Before]
  /\ UNCHANGED <<object_store, data_id_counter, pushed, refs, cleanup_list, task_counter,
                 rr, async_operations, chan, pc, frame, ret, putval, submitted, obs,
                 done_sent, mon, rendezvous, wire, handle_vars, mat_vars>>
  /\ UNCHANGED ctl_shutdown_vars

rs_process_get_request(source_rank, data_id, is_blocking_op) ==
  rs_step([op |-> "process_get_request", source_rank |-> source_rank,
           data_id |-> data_id, is_blocking_op |-> is_blocking_op],
          process_get_request(RS_Before, source_rank, data_id, is_blocking_op))

rs_put(data_id, rank, is_blocking_op) ==
  rs_step([op |-> "put", rank |-> rank, data_id |-> data_id,
           is_blocking_op |-> is_blocking_op],
          RequestStore_put(RS_Before, data_id, rank, REQ_DATA, is_blocking_op))

rs_check_pending_get_requests(data_ids) ==
  rs_step([op |-> "check_pending_get_requests", data_ids |-> data_ids],
          check_pending_get_requests(RS_Before, data_ids))

\* a value lands in the worker's object store
rs_store_put(data_id) ==
  /\ data_id \notin DOMAIN worker[RS_Self].store
  /\ rs_step([op |-> "store_put", data_id |-> data_id],
             [RS_Before EXCEPT !.store = DictSet(@, data_id, "a")])

\* a CLEANUP removes ids from the object store and the serialized cache
rs_cleanup(ids) ==
  rs_step([op |-> "cleanup", ids |-> ids], on_CLEANUP(RS_Before, [ids |-> ids]))

\* the tracker reaps the handles of completed sends
rs_reap ==
  /\ worker[RS_Self].async_operations > 0
  /\ rs_step([op |-> "reap"], [RS_Before EXCEPT !.async_operations = 0])

NextRS ==
  \/ \E r \in RS_Requesters, id \in RS_Ids, b \in BOOLEAN :
       /\ worker[RS_Self].async_operations < RS_MaxHandles
       /\ rs_process_get_request(r, id, b)
  \/ \E r \in RS_Requesters, id \in RS_Ids, b \in BOOLEAN : rs_put(id, r, b)
  \/ \E ids \in SeqsUpTo(RS_Ids, RS_MaxListLen) :
       /\ worker[RS_Self].async_operations < RS_MaxHandles
       /\ rs_check_pending_get_requests(ids)
  \/ \E id \in RS_Ids : rs_store_put(id)
  \/ \E id \in RS_Ids : rs_cleanup({id})
  \/ rs_reap

SpecRS == Init /\ [][NextRS]_vars

\* The controller program makes MasterDataID objects with and without a
\* garbage collector, takes and drops references to them, and sends them
\* through pickle.
HD_Ids == {DataID(ROOT, n) : n \in 0 .. (HD_MaxIds - 1)}

NextHD ==
  \/ /\ Len(objs) < HD_MaxObjects
     /\ \E id \in HD_Ids, gc \in {"gc", "None"} : obj_new(id, gc)
  \/ \E o \in DOMAIN objs : objs[o].holders < HD_MaxHolders /\ obj_hold(o)
  \/ \E o \in DOMAIN objs : obj_release(o)
  \/ /\ Len(objs) < HD_MaxObjects
     /\ \E o \in DOMAIN objs : obj_pickle(o)

SpecHD == Init /\ [][NextHD]_vars

\* A worker's object store receives values, among them values that are ids,
\* and materialize_data_ids is called with trees of ids over that store.
MT_Ids == {DataID(ROOT, n) : n \in 0 .. (MT_MaxIds - 1)}

RECURSIVE MT_Trees(_)
\* the trees of nesting depth up to d with base ids and other objects at the leaves
MT_Trees(d) ==
  IF d = 0 THEN {BaseDataID(id) : id \in MT_Ids} \cup {Object}
  ELSE LET V == MT_Trees(d - 1)
           S == SeqsUpTo(V, MT_MaxItems)
       IN V \cup {List(items) : items \in S} \cup {Tuple(items) : items \in S}
            \cup {Dict([i \in DOMAIN items |-> Object], items) : items \in S}

NextMT ==
  \/ \E id \in MT_Ids, value \in MT_Trees(0) :
       id \notin DOMAIN mat_store /\ mat_store_put(id, value)
  \/ \E data_ids \in MT_Trees(MT_MaxDepth), is_pending \in BOOLEAN :
       mat_materialize(data_ids, is_pending)

SpecMT == Init /\ [][NextMT]_vars

\* The wait side of the request store of one worker, called directly: WAIT
\* requests for any of the worker's ids, pending checks for one id or a list
\* of ids, while values land in and are cleaned from its object store.
rs_process_wait_request(data_id) ==
  rs_step([op |-> "process_wait_request", data_id |-> data_id],
          process_wait_request(RS_Before, data_id))

rs_check_pending_wait_requests(data_ids) ==
  rs_step([op |-> "check_pending_wait_requests", data_ids |-> data_ids, is_list |-> TRUE],
          check_pending_wait_requests(RS_Before, data_ids))

rs_check_pending_wait_requests_id(data_id) ==
  rs_step([op |-> "check_pending_wait_requests", data_ids |-> <<data_id>>,
           is_list |-> FALSE],
          check_pending_wait_requests_id(RS_Before, data_id))

NextRW ==
  \/ \E id \in RS_Ids : rs_process_wait_request(id)
  \/ \E ids \in SeqsUpTo(RS_Ids, RS_MaxListLen) : rs_check_pending_wait_requests(ids)
  \/ \E id \in RS_Ids : rs_check_pending_wait_requests_id(id)
  \/ \E id \in RS_Ids : rs_store_put(id)
  \/ \E ids \in (SUBSET RS_Ids) \ {{}} : rs_cleanup(ids)

SpecRW == Init /\ [][NextRW]_vars

\* -------------------------------------------------------------- properties
\* the value an id stands for: what put was given, or what its task produces
ValueOf(id) ==
  IF id \in DOMAIN putval THEN putval[id]
  ELSE task_result(submitted[CHOOSE t \in DOMAIN submitted : id \in Range(submitted[t].output)])

GetReturns == pc = "return" /\ ret.op = "get"
WaitReturns == pc = "return" /\ ret.op = "wait"

\* C1 as stated: get(put(v)) returns v for ANY value v.
C1_Original ==
  (GetReturns /\ ~ret.is_list /\ ret.data_ids[1] \in DOMAIN putval)
    => (ret.outcome = "return" /\ ret.value = putval[ret.data_ids[1]])

\* C1 (amended): for a value v that is not an exception instance, get(put(v))
\* returns v; when v is an exception instance get raises v.  A put id that the
\* program still holds is always served from the controller's store: get
\* never asks another rank for it.
C1_GetPutRoundTrip ==
  /\ (GetReturns /\ ~ret.is_list /\ ret.data_ids[1] \in DOMAIN putval)
       => LET v == putval[ret.data_ids[1]]
          IN /\ ret.value = v
             /\ ret.outcome = IF isException(v) THEN "raise" ELSE "return"
  /\ (pc = "get_recv") => frame.data_ids[frame.i] \notin DOMAIN putval

C1_Witness ==
  GetReturns /\ ~ret.is_list /\ ret.data_ids[1] \in DOMAIN putval
    /\ ret.outcome = "return" /\ ret.value = "a"

\* C2: get on an id whose value is an exception raises that exception; for a
\* list the exception of the first such id in list order is raised and no
\* list of values is returned; without such an id the values are returned.
C2_GetRaises ==
  GetReturns =>
    LET ids == ret.data_ids
        bad == {i \in DOMAIN ids : isException(ValueOf(ids[i]))}
    IN IF bad /= {}
       THEN /\ ret.outcome = "raise"
            /\ ret.value = ValueOf(ids[CHOOSE i \in bad : \A j \in bad : i <= j])
       ELSE /\ ret.outcome = "return"
            /\ ret.value = get_return([i \in DOMAIN ids |-> ValueOf(ids[i])], ret.is_list)

\* a list get whose first id holds a plain value and whose second id, owned
\* by a worker and not in the controller's store, holds an exception
C2_Witness ==
  /\ GetReturns /\ ret.is_list /\ Len(ret.data_ids) = 2
  /\ ret.outcome = "raise" /\ ret.value = "E"
  /\ ~isException(ValueOf(ret.data_ids[1]))
  /\ ret.data_ids[2].rank \in Workers
  /\ ~contains(object_store, ret.data_ids[2])

\* C3: wait([id], 1) with id in the controller's object store returns
\* ([id], []) and sends no WAIT to the monitor.
C3_WaitLocal ==
  /\ (WaitReturns /\ Len(ret.data_ids) = 1 /\ ret.num_returns = 1
        /\ contains(object_store, ret.data_ids[1]))
       => /\ ret.ready = ret.data_ids
          /\ ret.not_ready = <<>>
          /\ ~ret.via_monitor
  /\ (pc = "wait_recv" /\ Len(frame.data_ids) = 1 /\ frame.num_returns = 1)
       => ~contains(object_store, frame.data_ids[1])

C3_Witness ==
  WaitReturns /\ ret.data_ids = <<DataID(ROOT, 0)>> /\ ret.num_returns = 1
    /\ ret.ready = <<DataID(ROOT, 0)>> /\ ~ret.via_monitor

\* C4 as stated: wait with num_returns > len(ids) surfaces an error to the
\* caller and does not block on the monitor.
C4_Claim ==
  /\ (pc = "wait_recv") => frame.num_returns <= Len(frame.data_ids)
  /\ (WaitReturns /\ ret.num_returns > Len(ret.data_ids)) => ret.outcome = "raise"

\* C5: for distinct ids and 1 <= num_returns <= len(ids), when wait returns,
\* ready holds exactly num_returns ids, not_ready the remaining ones, the two
\* are disjoint and together are exactly the ids passed in.
C5_WaitPartition ==
  (WaitReturns /\ Distinct(ret.data_ids)
     /\ 1 <= ret.num_returns /\ ret.num_returns <= Len(ret.data_ids))
    => /\ Len(ret.ready) = ret.num_returns
       /\ Len(ret.not_ready) = Len(ret.data_ids) - ret.num_returns
       /\ Range(ret.ready) \cap Range(ret.not_ready) = {}
       /\ Range(ret.ready) \cup Range(ret.not_ready) = Range(ret.data_ids)

\* two ids, one taken from the controller's store and one reported by the monitor
C5_Witness ==
  WaitReturns /\ Distinct(ret.data_ids) /\ Len(ret.data_ids) = 2
    /\ ret.num_returns = 2 /\ ret.via_monitor /\ Len(ret.ready) = 2

\* partial readiness: the monitor reports one of two tasks
C5_WitnessPartial ==
  WaitReturns /\ Distinct(ret.data_ids) /\ Len(ret.data_ids) = 2
    /\ ret.num_returns = 1 /\ ret.via_monitor /\ Len(ret.not_ready) = 1

\* everything but GET that the controller has sent to worker w, in send order:
\* what w has observed followed by what is still in flight
SentTo(w) == obs[w] \o SelectSeq(chan[<<ROOT, w>>], LAMBDA m : m.op /= "GET")

IsPush(m) == m.op \in {"PUT_DATA", "PUT_OWNER"}

\* in log, every push made for a task precedes the task's EXECUTE
PushesBeforeExecute(log) ==
  \A j \in DOMAIN log :
    log[j].op = "EXECUTE" =>
      \A i \in DOMAIN log : (IsPush(log[i]) /\ log[i].task = log[j].task) => i < j

\* C6: within one submit, every PUT_DATA / PUT_OWNER for the task's positional
\* and keyword arguments is sent to the destination rank before the task's
\* EXECUTE, and the worker observes them in that order: when it has observed
\* the EXECUTE it has observed every push made for it.
C6_PushBeforeExecute ==
  \A w \in Workers :
    /\ PushesBeforeExecute(SentTo(w))
    /\ \A j \in DOMAIN obs[w] :
         obs[w][j].op = "EXECUTE" =>
           \A i \in DOMAIN SentTo(w) :
             (IsPush(SentTo(w)[i]) /\ SentTo(w)[i].task = obs[w][j].task) => i < j

\* a worker has observed a PUT_DATA for a positional argument and a PUT_OWNER
\* for a keyword argument, and then the EXECUTE of the same task
C6_Witness ==
  \E w \in Workers : \E i, j, k \in DOMAIN obs[w] :
    /\ obs[w][k].op = "EXECUTE" /\ obs[w][k].args /= <<>> /\ obs[w][k].kwargs /= EmptyDict
    /\ obs[w][i].op = "PUT_DATA" /\ obs[w][i].task = obs[w][k].task
    /\ obs[w][j].op = "PUT_OWNER" /\ obs[w][j].task = obs[w][k].task

\* in log, nothing after a CLEANUP of id X references X
NothingAfterCleanup(log) ==
  \A i, j \in DOMAIN log :
    (log[i].op = "CLEANUP" /\ i < j) => log[i].ids \cap MsgIds(log[j]) = {}

\* C7: no worker observes a CLEANUP for id X before it has observed every
\* EXECUTE / PUT_DATA / PUT_OWNER the controller sends to it that references
\* X; the ids a cleanup flush sends out are ids the program no longer
\* holds, so no later submit can pass them as argument.
C7_CleanupLast ==
  \A w \in Workers :
    /\ NothingAfterCleanup(SentTo(w))
    /\ NothingAfterCleanup(obs[w])
    /\ \A i \in DOMAIN SentTo(w) :
         SentTo(w)[i].op = "CLEANUP" => SentTo(w)[i].ids \cap Live = {}

\* a worker has observed an operation referencing X and later the CLEANUP of
\* X, which the controller flushed while another task was outstanding
C7_Witness ==
  \E w \in Workers : \E i, j \in DOMAIN obs[w] :
    /\ i < j
    /\ obs[w][j].op = "CLEANUP"
    /\ obs[w][j].ids \cap MsgIds(obs[w][i]) /= {}
    /\ Len(submitted) = 2

\* the TASK_DONE of task t has been received by the monitor
Matched(t) ==
  /\ t \in Range(done_sent)
  /\ \A w \in Workers : \A i \in DOMAIN chan[<<w, MONITOR>>] :
       chan[<<w, MONITOR>>][i].task /= t

AllMatched == \A t \in DOMAIN submitted : Matched(t)

C9_OwnerIsDestination ==
  /\ \A w \in Ranks : \A i \in DOMAIN chan[<<ROOT, w>>] :
       chan[<<ROOT, w>>][i].op = "EXECUTE" => w \in Workers
  /\ \A w \in Workers : \A i \in DOMAIN SentTo(w) :
       SentTo(w)[i].op = "EXECUTE" =>
         /\ w >= 2
         /\ \A id \in Range(SentTo(w)[i].output) : id.rank = w
  /\ \A w \in Workers : \A i \in DOMAIN chan[<<w, MONITOR>>] :
       \A id \in Range(chan[<<w, MONITOR>>][i].output) : id.rank = w
  /\ \A t \in DOMAIN submitted :
       \A id \in Range(submitted[t].output) : id.rank = submitted[t].dest_rank

\* the second worker has run a task with two outputs and holds both values
C9_Witness ==
  \E i \in DOMAIN obs[3] :
    /\ obs[3][i].op = "EXECUTE" /\ Len(obs[3][i].output) = 2
    /\ Range(obs[3][i].output) \subseteq DOMAIN worker[3].store

\* the ranks that have left their loop on a CANCEL
Cancelled(r) == IF r = MONITOR THEN ~mon.alive ELSE ~worker[r].alive

\* CANCEL messages the controller has sent to rank r: in flight or received
CancelCount(r) ==
  IF r = ROOT THEN Len(SelectSeq(chan[<<ROOT, ROOT>>], LAMBDA m : m.op = "CANCEL"))
  ELSE Len(SelectSeq(chan[<<ROOT, r>>], LAMBDA m : m.op = "CANCEL"))
       + (IF Cancelled(r) THEN 1 ELSE 0)

\* C10: across any number (>= 1) of shutdown calls, the monitor and every
\* worker (ranks 1 .. world_size-1) are sent exactly one CANCEL and rank 0
\* none, and the transport is finalized once: a call after a completed
\* shutdown sends nothing and does not finalize again.  Before the first
\* call nothing has been sent.
C10_ShutdownOnce ==
  /\ \A r \in Ranks : CancelCount(r) = cancel_sent[r]
  /\ shutdown_calls = 0 =>
       /\ \A r \in Ranks : cancel_sent[r] = 0
       /\ finalize_count = 0 /\ ~is_mpi_shutdown
  /\ shutdown_calls >= 1 =>
       /\ \A r \in 1 .. (world_size - 1) : cancel_sent[r] = 1
       /\ cancel_sent[ROOT] = 0
       /\ finalize_count = 1 /\ is_mpi_shutdown

\* shutdown has been called a second time after the first one completed, and
\* every rank has received its CANCEL
C10_Witness ==
  /\ shutdown_calls >= 2
  /\ \A r \in 1 .. (world_size - 1) : Cancelled(r) /\ cancel_sent[r] = 1

\* C11: in shutdown the async-operations tracker is drained after every
\* CANCEL has been sent and before the transport is finalized, and once
\* shutdown has returned the tracker holds no handle, those registered by
\* earlier submit calls included.
C11_DrainOrder ==
  /\ shutdown_calls >= 1 => async_operations = <<>>
  /\ shutdown_calls >= 1 =>
       \E f \in DOMAIN shutdown_trace :
         /\ shutdown_trace[f].step = "finish"
         /\ \A r \in shutdown_ranks : \E c \in 1 .. (f - 1) :
              shutdown_trace[c].step = "CANCEL" /\ shutdown_trace[c].rank = r
  /\ \A i, j \in DOMAIN shutdown_trace :
       /\ (shutdown_trace[i].step = "CANCEL" /\ shutdown_trace[j].step = "finish") => i < j
       /\ (shutdown_trace[i].step = "finish" /\ shutdown_trace[j].step = "finalize") => i < j
  /\ \A i \in DOMAIN shutdown_trace :
       shutdown_trace[i].step = "finalize" => shutdown_trace[i].handles = 0

\* shutdown has drained two handles that earlier submit calls registered
C11_Witness ==
  /\ shutdown_calls >= 1 /\ Len(submitted) = 2 /\ async_operations = <<>>
  /\ \E i \in DOMAIN shutdown_trace :
       shutdown_trace[i].step = "finish" /\ shutdown_trace[i].handles = 2

\* C12 as stated: once SIGINT or SIGTERM has been delivered to the
\* initialized controller, the termination handler has run the shutdown
\* sequence: CANCEL to every non-controller rank, async drain, finalize.
C12_Claim ==
  (signals >= 1 /\ ~exited) =>
    /\ is_mpi_shutdown
    /\ \A r \in shutdown_ranks : cancel_sent[r] = 1
    /\ async_operations = <<>>
    /\ finalize_count = 1

\* C13 as stated: a public verb called before init reports an error and has
\* no effect: while init has not been called no put has returned an id and
\* no message has been sent.
C13_Claim ==
  ~is_mpi_initialized =>
    /\ putval = EmptyDict
    /\ object_store = EmptyDict
    /\ \A p \in DOMAIN chan : chan[p] = <<>>

\* ---- request store properties: RS_W is the store after the last direct
\* call, rs_call.before the store before it, RS_W.out what the call sent
RS_W == worker[RS_Self]

\* number of messages of the given mode that the last call sent to rank r
RS_Sent(r, mode) ==
  Cardinality({i \in DOMAIN RS_W.out : RS_W.out[i].to = r /\ RS_W.out[i].mode = mode})

\* the requests <<id, rank, blocking flag>> that W has recorded
Triples(W) ==
  {t \in RS_Ids \X Ranks \X BOOLEAN :
     LET bin == IF t[3] THEN W.blocking_data_request ELSE W.data_request
     IN t[1] \in DOMAIN bin /\ t[2] \in bin[t[1]]}

\* the ids of the last check_pending_get_requests call that were in the store
RS_Served == {id \in Range(rs_call.data_ids) : id \in DOMAIN rs_call.before.store}

\* the requests of rank r that were recorded for those ids before the call
RS_ServedRequests(r) == {t \in Triples(rs_call.before) : t[1] \in RS_Served /\ t[2] = r}

C14_WitnessDeferred ==
  /\ rs_call.op = "check_pending_get_requests"
  /\ RS_Sent(3, "async") = 1 /\ RS_Sent(3, "sync") = 1 /\ RS_Sent(ROOT, "sync") = 1

\* C17: recording a GET request adds exactly its (id, requester, blocking
\* flag) triple and touches no other: recording a triple that is already
\* recorded leaves the store unchanged, and the same (id, rank) may be
\* recorded in the blocking and in the non-blocking bin at once.
C17_TripleOnce ==
  LET recorded == \/ rs_call.op = "put"
                  \/ /\ rs_call.op = "process_get_request"
                     /\ rs_call.data_id \notin DOMAIN rs_call.before.store
      rank == IF rs_call.op = "put" THEN rs_call.rank ELSE rs_call.source_rank
      triple == <<rs_call.data_id, rank, rs_call.is_blocking_op>>
  IN recorded =>
       /\ Triples(RS_W) = Triples(rs_call.before) \cup {triple}
       /\ triple \in Triples(rs_call.before) => RS_W = rs_call.before
       /\ RS_W.out = <<>>
       /\ RS_W.wait_request = rs_call.before.wait_request
       /\ RS_W.data_request_cache = rs_call.before.data_request_cache

\* a request already recorded was recorded again while the same (id, rank)
\* sits in both bins, next to another requester of the same id
C17_Witness ==
  /\ rs_call.op = "put"
  /\ <<rs_call.data_id, rs_call.rank, rs_call.is_blocking_op>> \in Triples(rs_call.before)
  /\ <<rs_call.data_id, rs_call.rank, ~rs_call.is_blocking_op>> \in Triples(RS_W)
  /\ \E r \in Ranks \ {rs_call.rank} :
       <<rs_call.data_id, r, rs_call.is_blocking_op>> \in Triples(RS_W)

\* C18: an id has an entry in the serialized cache only if the object store
\* holds a value for it.
C18_SerializedImpliesStored ==
  \A w \in Workers : worker[w].serialized \subseteq DOMAIN worker[w].store

\* a payload was cached by an asynchronous answer, and another id was cleaned
\* from the store after its payload had been cached
C18_Witness ==
  /\ RS_W.serialized /= {}
  /\ rs_call.op = "cleanup"
  /\ rs_call.ids \cap rs_call.before.serialized /= {}

\* the last call was check_pending_get_requests for one id that was in the store
RS_CheckedOne ==
  /\ rs_call.op = "check_pending_get_requests"
  /\ Len(rs_call.data_ids) = 1
  /\ rs_call.data_ids[1] \in DOMAIN rs_call.before.store

\* C20 as stated: every rank recorded for the id, in either bin, is sent
\* the data exactly once.
C20_Original ==
  RS_CheckedOne =>
    \A r \in Ranks :
      RS_ServedRequests(r) /= {} => RS_Sent(r, "sync") + RS_Sent(r, "async") = 1

\* C20 (amended): check_pending_get_requests for ids present in the store
\* sends the data once for every recorded request: a rank is sent it once
\* for each bin it is recorded in (twice when it is in both), a rank not
\* recorded is sent nothing; afterwards neither bin has an entry for these
\* ids, and the pending requests for other ids are unchanged.
C20_DrainBothBins ==
  (rs_call.op = "check_pending_get_requests"
     /\ Range(rs_call.data_ids) \subseteq DOMAIN rs_call.before.store)
    => /\ \A r \in Ranks :
            RS_Sent(r, "sync") + RS_Sent(r, "async") = Cardinality(RS_ServedRequests(r))
       /\ \A id \in Range(rs_call.data_ids) :
            /\ id \notin DOMAIN RS_W.data_request
            /\ id \notin DOMAIN RS_W.blocking_data_request
       /\ Triples(RS_W) = {t \in Triples(rs_call.before) : t[1] \notin Range(rs_call.data_ids)}
       /\ \A id \in RS_Ids \ Range(rs_call.data_ids) :
            /\ (id \in DOMAIN RS_W.data_request) <=> (id \in DOMAIN rs_call.before.data_request)
            /\ (id \in DOMAIN RS_W.blocking_data_request)
                 <=> (id \in DOMAIN rs_call.before.blocking_data_request)

\* two ranks were recorded for the id, one of them in both bins, while a
\* request for another id stayed pending
C20_Witness ==
  /\ RS_CheckedOne
  /\ Cardinality(RS_ServedRequests(3)) = 2
  /\ Cardinality(RS_ServedRequests(ROOT)) = 1
  /\ Len(RS_W.out) = 3
  /\ Triples(RS_W) /= {}

PE_Ids == {DataID(r, n) : r \in Workers, n \in 0 .. (PE_MaxSubmits - 1)}

\* C15: workers that request ids from each other at the same time never
\* deadlock: no worker is ever held inside a blocking data send to a peer,
\* and every id a worker has requested from its owner eventually arrives in
\* the requester's store.
C15_NoPeerDeadlock ==
  /\ [](\A w \in Workers : ~Blocked(w))
  /\ \A w \in Workers : \A id \in PE_Ids :
       (id \in worker[w].data_request_cache) ~> (id \in DOMAIN worker[w].store)

\* each of the two workers holds an id the other has requested, and both GET
\* requests are in flight at the same time
C15_Witness ==
  \E a, b \in PE_Ids :
    /\ a.rank = 2 /\ b.rank = 3
    /\ a \in DOMAIN worker[2].store /\ b \in DOMAIN worker[3].store
    /\ \E i \in DOMAIN chan[<<2, 3>>] :
         chan[<<2, 3>>][i].op = "GET" /\ chan[<<2, 3>>][i].id = b
    /\ \E i \in DOMAIN chan[<<3, 2>>] :
         chan[<<3, 2>>][i].op = "GET" /\ chan[<<3, 2>>][i].id = a

\* ------------------------------------------------------------------ C16
\* whether every data id that is the value itself or an element or dict value
\* at any depth of it is a base DataID, without garbage collector reference
AllBase(v) == \A x \in ElementIds(v) : x.t = "DataID"

\* C16: every id in the operation_data the controller builds for EXECUTE (in
\* args and kwargs at any nesting depth of lists, tuples and dicts, as element
\* or dict value, and in output) and for WAIT is a base DataID, and the ids
\* are those of the call's arguments.
C16_WireIdsAreBase ==
  /\ (wire.op = "EXECUTE")
       => /\ \A i \in DOMAIN wire.data.args :
               /\ AllBase(wire.data.args[i])
               /\ ElementIdSeq(wire.data.args, i) = ElementIdSeq(wire.args, i)
          /\ \A k \in DOMAIN wire.data.kwargs :
               /\ AllBase(wire.data.kwargs[k])
               /\ ElementIdSeq(<<wire.data.kwargs[k]>>, 1) = ElementIdSeq(<<wire.kwargs[k]>>, 1)
          /\ AllBase(wire.data.output)
  /\ (wire.op = "WAIT")
       => \A i \in DOMAIN wire.data.data_ids :
            /\ AllBase(wire.data.data_ids[i])
            /\ ElementIdSeq(wire.data.data_ids, i) = ElementIdSeq(wire.args, i)

\* an EXECUTE whose positional argument holds a MasterDataID as a dict value
\* inside a list, whose keyword argument holds one inside a list inside a
\* tuple, and which has an output id
C16_Witness ==
  /\ wire.op = "EXECUTE"
  /\ Len(wire.args) = 1 /\ wire.args[1].t = "list" /\ Len(wire.args[1].items) = 1
  /\ wire.args[1].items[1].t = "dict" /\ Len(wire.args[1].items[1].items) = 1
  /\ wire.args[1].items[1].items[1].t = "MasterDataID"
  /\ "k" \in DOMAIN wire.kwargs
  /\ wire.kwargs["k"].t = "tuple" /\ Len(wire.kwargs["k"].items) = 1
  /\ wire.kwargs["k"].items[1].t = "list" /\ Len(wire.kwargs["k"].items[1].items) = 1
  /\ wire.kwargs["k"].items[1].items[1].t = "MasterDataID"
  /\ ElementIds(wire.data.output) /= {}

\* a WAIT operation for an id the controller holds, sent to the monitor
C16_WitnessWait ==
  /\ wire.op = "WAIT" /\ Len(wire.data.data_ids) >= 1
  /\ wire.args[1].t = "MasterDataID"
  /\ \E i \in 1 .. Len(chan[<<ROOT, MONITOR>>]) : chan[<<ROOT, MONITOR>>][i].op = "WAIT"

\* ------------------------------------------------------------------ C19
\* the ids of a list that are in the controller's object store
LocallyPresent(data_ids) == {id \in Range(data_ids) : contains(object_store, id)}

\* C19: wait contacts the monitor only when fewer than num_returns of the ids
\* are in the controller's object store; otherwise it returns num_returns
\* locally-present ids as ready without a WAIT message. (While wait is blocked
\* on the monitor's reply the controller's object store is as wait found it.)
C19_Claim ==
  /\ (pc = "wait_recv" /\ frame.num_returns >= 1)
       => Cardinality(LocallyPresent(frame.data_ids)) < frame.num_returns
  /\ (WaitReturns /\ ~ret.via_monitor)
       => /\ Len(ret.ready) = ret.num_returns
          /\ Range(ret.ready) \subseteq LocallyPresent(ret.data_ids)

\* ------------------------------------------------------------------ C21
GL_Ids == {DataID(r, n) : r \in Workers, n \in 0 .. (GL_MaxSubmits - 1)}

\* whether W has a GET of rank for data_id recorded as pending
Recorded(W, data_id, rank, is_blocking_op) ==
  LET bin == IF is_blocking_op THEN W.blocking_data_request ELSE W.data_request
  IN data_id \in DOMAIN bin /\ rank \in bin[data_id]

\* the messages appended to the channel from w to r by the current step
NewlySent(w, r) == SubSeq(chan'[<<w, r>>], Len(chan[<<w, r>>]) + 1, Len(chan'[<<w, r>>]))

\* C21: a GET that reaches a worker before the value is recorded and sends
\* nothing; a recorded GET leaves the store only in a step that sends the
\* value, then in the worker's store, to the requester; every recorded GET is
\* eventually answered, and a controller blocked in get eventually returns.
C21_PendingGetAnswered ==
  /\ [][\A w \in Workers, id \in GL_Ids, r \in Ranks, b \in BOOLEAN :
          /\ (~Recorded(worker[w], id, r, b) /\ Recorded(worker'[w], id, r, b))
                => /\ id \notin DOMAIN worker[w].store
                   /\ chan'[<<w, r>>] = chan[<<w, r>>]
          /\ (Recorded(worker[w], id, r, b) /\ ~Recorded(worker'[w], id, r, b))
                => /\ id \in DOMAIN worker'[w].store
                   /\ \E i \in DOMAIN NewlySent(w, r) :
                        /\ NewlySent(w, r)[i].op \in {"DATA", "PUT_DATA"}
                        /\ NewlySent(w, r)[i].data = worker'[w].store[id]]_vars
  /\ \A w \in Workers, id \in GL_Ids, r \in Ranks, b \in BOOLEAN :
       Recorded(worker[w], id, r, b) ~> ~Recorded(worker[w], id, r, b)
  /\ (pc = "get_recv") ~> (pc = "return" /\ ret.op = "get" /\ ret.outcome = "return")

\* the controller is blocked in get on an id whose owner has recorded the
\* request because the task that produces the value has not run yet
C21_Witness ==
  /\ pc = "get_recv"
  /\ \E w \in Workers, id \in GL_Ids :
       /\ frame.data_ids[frame.i] = id
       /\ Recorded(worker[w], id, ROOT, TRUE)
       /\ id \notin DOMAIN worker[w].store

\* ------------------------------------------------------------------ C22
\* the send mpi_send_object(comm, data_id, ROOT): the id and nothing else
ReadySend(data_id) == [to |-> ROOT, msg |-> [op |-> "READY", id |-> data_id], mode |-> "sync"]

\* C22: process_wait_request(id) sends exactly one message carrying only the
\* id to the controller and records nothing when the id is in the local
\* store; when it is absent it sends nothing and records one pending wait
\* entry for the id, a repeated WAIT for the id leaving exactly one entry.
C22_ProcessWait ==
  (rs_call.op = "process_wait_request")
    => LET id == rs_call.data_id
           before == rs_call.before
       IN IF id \in DOMAIN before.store
          THEN RS_W = [before EXCEPT !.out = <<ReadySend(id)>>]
          ELSE /\ RS_W = [before EXCEPT !.wait_request = DictSet(@, id, ROOT)]
               /\ RS_W.out = <<>>
               /\ DOMAIN RS_W.wait_request = DOMAIN before.wait_request \cup {id}
               /\ Cardinality(DOMAIN RS_W.wait_request)
                    = Cardinality(DOMAIN before.wait_request \ {id}) + 1

\* a WAIT for an absent id for which a WAIT was already recorded
C22_Witness ==
  /\ rs_call.op = "process_wait_request"
  /\ rs_call.data_id \notin DOMAIN rs_call.before.store
  /\ rs_call.data_id \in DOMAIN rs_call.before.wait_request
  /\ rs_call.data_id \in DOMAIN RS_W.wait_request

\* a WAIT for an id that is in the store
C22_WitnessPresent ==
  /\ rs_call.op = "process_wait_request"
  /\ rs_call.data_id \in DOMAIN rs_call.before.store
  /\ Len(RS_W.out) = 1

C23_WitnessId ==
  /\ rs_call.op = "check_pending_wait_requests" /\ ~rs_call.is_list
  /\ rs_call.data_ids[1] \in DOMAIN rs_call.before.wait_request
  /\ Len(RS_W.out) = 1

\* ------------------------------------------------------------------ C24
\* how many times collect was called by the deletion of object o
Collects(o) == Cardinality({i \in DOMAIN collect_log : collect_log[i].obj = o})

\* C24: for a MasterDataID made with a garbage collector, collect is called
\* with its base id exactly once, by the drop of its last holder, and not
\* while a holder exists; for one made without a garbage collector collect
\* is never called.
C24_CollectOnce ==
  \A o \in DOMAIN objs :
    (objs[o].origin = 0)
      => IF objs[o].dict["_gc"] = "gc"
         THEN /\ Collects(o) = IF objs[o].holders = 0 THEN 1 ELSE 0
              /\ \A i \in DOMAIN collect_log :
                   (collect_log[i].obj = o)
                     => /\ collect_log[i].id = objs[o].dict["_id"]
                        /\ collect_log[i].id \in cleanup_list
         ELSE Collects(o) = 0

\* an object with a garbage collector deleted after it had two holders,
\* another one still held, and one without garbage collector deleted
C24_Witness ==
  /\ Len(objs) = 3
  /\ objs[1].dict["_gc"] = "gc" /\ objs[1].holders = 0 /\ objs[1].origin = 0
  /\ objs[2].origin = 0 /\ objs[2].dict["_gc"] = "gc" /\ objs[2].holders = 2
  /\ objs[3].origin = 0 /\ objs[3].dict["_gc"] = "None" /\ objs[3].holders = 0
  /\ Len(collect_log) = 1

\* ------------------------------------------------------------------ C25
\* C25: pickling a MasterDataID that has a garbage collector leaves the
\* object as it was; the serialized form and the object unpickled from it
\* hold the same id value and no garbage collector reference; deleting the
\* unpickled object never calls collect, and the original still calls collect
\* once when its last holder drops it.
C25_PickleStripsHook ==
  /\ (obj_call.op = "pickle" /\ obj_call.outcome = "return")
       => /\ obj_call.state = [_id |-> obj_call.before.dict["_id"]]
          /\ objs[Len(objs)].dict = obj_call.state
          /\ objs[Len(objs)].origin = obj_call.obj
          /\ objs[obj_call.obj] = obj_call.before
  /\ \A c \in DOMAIN objs :
       (objs[c].origin /= 0)
         => /\ objs[c].dict = [_id |-> objs[objs[c].origin].dict["_id"]]
            /\ Collects(c) = 0
            /\ (objs[objs[c].origin].dict["_gc"] = "gc")
                 => Collects(objs[c].origin) = IF objs[objs[c].origin].holders = 0 THEN 1 ELSE 0

\* an object with a garbage collector and the object unpickled from it, both
\* deleted: collect was called once, by the original
C25_Witness ==
  /\ \E o, c \in DOMAIN objs :
       /\ objs[c].origin = o /\ objs[o].dict["_gc"] = "gc"
       /\ objs[o].holders = 0 /\ objs[c].holders = 0
       /\ \E i \in DOMAIN collect_log : collect_log[i].obj = o
  /\ Len(collect_log) = 1

\* pickling an unpickled object fails: it has no "_gc" attribute to delete
C25_WitnessKeyError == obj_call.op = "pickle" /\ obj_call.outcome = "KeyError"

\* ------------------------------------------------------------------ C26
RECURSIVE Resolved(_, _)
\* the tree of the same shape as v in which each leaf is the value the
\* resolver returns for it
Resolved(st, v) ==
  IF v.t \in {"list", "tuple", "dict"}
  THEN [v EXCEPT !.items = [i \in DOMAIN v.items |-> Resolved(st, v.items[i])]]
  ELSE unwrap_data_id_impl(st, v).value

\* whether the resolver reports one of the ids of v as still pending
AnyPending(st, v) == \E x \in ElementIds(v) : unwrap_data_id_impl(st, x).progress

\* C26: materialize_data_ids returns a tree of the same shape in which each
\* leaf is what the resolver returns for it, and a flag that is true exactly
\* when the resolver reported an id of the tree as still pending or the flag
\* passed in was true.
C26_Claim ==
  (mat_call.op = "materialize_data_ids")
    => /\ mat_call.result.value = Resolved(mat_call.store, mat_call.data_ids)
       /\ mat_call.result.is_pending
            = (mat_call.is_pending \/ AnyPending(mat_call.store, mat_call.data_ids))

\* the same statement for calls in which no value the resolver returns is an id
C26_WhenValuesAreNotIds ==
  (/\ mat_call.op = "materialize_data_ids"
   /\ \A id \in DOMAIN mat_call.store : ~is_data_id(mat_call.store[id]))
    => /\ mat_call.result.value = Resolved(mat_call.store, mat_call.data_ids)
       /\ mat_call.result.is_pending
            = (mat_call.is_pending \/ AnyPending(mat_call.store, mat_call.data_ids))

\* ------------------------------------------------------------------ C27
\* C27: a GET recorded as pending leaves the request store only when a reply
\* was sent to its requester: check_pending_get_requests called for an id
\* that is not in the object store leaves every request for that id recorded.
C27_Claim ==
  (rs_call.op = "check_pending_get_requests")
    => \A t \in Triples(rs_call.before) :
         /\ (t[1] \notin DOMAIN rs_call.before.store) => t \in Triples(RS_W)
         /\ (t \notin Triples(RS_W))
              => \E i \in DOMAIN RS_W.out : RS_W.out[i].to = t[2]

\* ------------------------------------------------------------------ C28
\* C28: after wait returns, on the early-return path and on the monitor
\* path, the list the caller passed holds the same ids in the same order as
\* before the call.
C28_Claim ==
  (WaitReturns /\ ret.is_list /\ ret.outcome = "return")
    => ret.caller_list = ret.data_ids

====
